---- MODULE Spec2Model ----
(***************************************************************************)
(* Ingestion stage of the AI news briefing pipeline: the RSS merge         *)
(* (ingest/rss.py ingest_rss), the full-article fetch it calls             *)
(* (fetch_article), the Gmail ingestion (ingest/gmail.py fetch_emails) and *)
(* the pipeline's final de-duplication (briefing_pipeline.py               *)
(* run_ingestion).                                                         *)
(*                                                                         *)
(* Strings whose text never matters are abstracted to a record             *)
(* [txt, len, pad]: txt names the text, len is the number of characters    *)
(* that survive str.strip(), pad the number of surrounding whitespace      *)
(* characters.  A Python dict is a sequence of <<key, value>> pairs in      *)
(* insertion order.                                                        *)
(* A key that a dict lacks, and Python's None, are the values NoField and  *)
(* None.                                                                   *)
(***************************************************************************)
EXTENDS Integers, Sequences, FiniteSets, TLC

VARIABLES
    pc,                     \* position of run_ingestion
    gmail_items,            \* fetch_emails: items
    gmail_seen,             \* fetch_emails: number of messages of the listing handled so far
    feed_idx,               \* ingest_rss: position of `for publisher, feed_cfg in feeds.items()`
    entry,                  \* ingest_rss: loop variable `entry` (NoEntry before the first entry)
    items_by_url,           \* ingest_rss: items_by_url
    skipped,                \* ingest_rss: skipped (of the current feed)
    total_skipped,          \* ingest_rss: total_skipped
    total_items_processed,  \* ingest_rss: total_items_processed
    dedup_count,            \* ingest_rss: dedup_count
    folded,                 \* history: the entries that reached the dedup lookup, in order
    unique_items,           \* run_ingestion: unique_items
    fa_pc,                  \* fetch_article: position ("idle" outside a call)
    fa_limit,               \* fetch_article: the argument max_retries
    fa_attempt,             \* fetch_article: loop variable `attempt`
    fa_last_error,          \* fetch_article: last_error
    fa_slept,               \* history: the arguments of time.sleep, in order
    fa_calls,               \* history: the number of requests.get calls
    fa_return,              \* fetch_article: the returned triple
    analysis,               \* run_analysis: analysis["claims"]
    verify_pc,              \* verify: position ("idle" outside a call)
    raw_data,               \* verify: raw_data
    topic_sources,          \* verify: topic_sources
    idx,                    \* verify: loop variable `idx`, from 1
    initial_claims,         \* history: analysis["claims"] as verify received them
    oracle_log,             \* history: what the contestation oracle did for each claim
    topics_pc,              \* normalize_topics: position ("idle" outside a call)
    mapping,                \* normalize_topics: mapping
    grouping_calls,         \* history: the number of calls of the topic grouping oracle
    claims_before,          \* history: analysis["claims"] as normalize_topics received them
    grouping_reply,         \* history: the kind of reply the topic grouping oracle gave
    run_pc,                 \* briefing_pipeline.main: position ("idle" outside a run)
    stages,                 \* history: the stages main has entered, in order
    analyze_pc,             \* analyze: position ("idle" outside a call)
    total_items,            \* analyze: total_items
    batch_i,                \* analyze: loop variable `i`
    all_claims,             \* analyze: all_claims
    batch_log,              \* history: what the extraction oracle replied for each batch
    publisher_cache,        \* gmail.py: the content of PUBLISHER_CACHE_FILE
    llm_calls,              \* history: the number of calls of the publisher verification LLM
    publisher_return,       \* the value the last publisher call returned
    cache_call,             \* history: the last publisher call and what was known before it
    computed,               \* history: the name last computed for each address
    kept,                   \* history: whether that name was written and not wiped since
    cache_calls,            \* history: the number of publisher calls
    cached_config,          \* config.py: _cached_config
    config_file,            \* config.py: the content of CONFIG_FILE
    config_call,            \* history: the last config.py call
    lookback_return,        \* the value the last get_lookback_days() returned
    latest_days,            \* history: lookback_days of the configuration last saved or loaded
    config_calls            \* history: the number of config.py calls

fetchVars == <<fa_pc, fa_limit, fa_attempt, fa_last_error, fa_slept, fa_calls, fa_return>>

verifyVars == <<verify_pc, raw_data, topic_sources, idx, initial_claims, oracle_log>>

topicVars == <<topics_pc, mapping, grouping_calls, claims_before, grouping_reply>>

runVars == <<run_pc, stages>>

\* the state of the functions modelled apart from the ingestion, the fetch,
\* the topic normalisation and the verification
analyzeVars == <<analyze_pc, total_items, batch_i, all_claims, batch_log>>

cacheVars == <<publisher_cache, llm_calls, publisher_return, cache_call, computed, kept,
               cache_calls>>

configVars == <<cached_config, config_file, config_call, lookback_return, latest_days,
                config_calls>>

laterVars == <<runVars, analyzeVars, cacheVars, configVars>>

\* the state that run_ingestion does not touch
stageVars == <<fetchVars, analysis, verifyVars, topicVars, laterVars>>

vars == <<pc, gmail_items, gmail_seen, feed_idx, entry, items_by_url, skipped,
          total_skipped, total_items_processed, dedup_count, folded, unique_items,
          stageVars>>

NoField == "<absent>"
None == "<None>"

\* ------------------------------------------------------------------ bounds
MaxInputs == 2
MaxRetryLimit == 4
MaxClaims == 2
MaxBatches == 3

\* ------------------------------------------------------- program constants
MIN_CONTENT_LENGTH == 200
max_retries == 3
MinExtractedLength == 100
GmailMinLength == 100
GmailTier == 2
BATCH_SIZE == 50

\* ------------------------------------------------------------ Python text
Text(t, n, p) == [txt |-> t, len |-> n, pad |-> p]
EmptyStr == Text("", 0, 0)
NoText == Text(NoField, 0, 0)     \* a missing key whose value would be a string
NoneText == Text(None, 0, 0)      \* None where a string is expected
NoList == <<NoText>>              \* a missing key whose value would be a list

\* len(s)
PyLen(s) == s.len + s.pad

\* s.strip()
Strip(s) == [s EXCEPT !.pad = 0]

\* truth value of a string
Truthy(s) == PyLen(s) > 0

\* d.get(key, default) for a key whose value is v, or NoField when missing
PyGet(v, default) == IF v = NoField THEN default ELSE v

\* min(a, b)
Min(a, b) == IF b < a THEN b ELSE a

\* ------------------------------------------------- core/ingestion_policy.py
Policy(t, f, m) == [tier |-> t, fetch_full_article |-> f, min_content_length |-> m]

PolicyTags == {"news", "corporate_research", "analysis_newsletter", "frontier_lab",
               "vendor_blog", "policy_org", "press_release", "research_journal",
               "community_blog", "unknown"}

INGESTION_POLICY == [tag \in PolicyTags |->
    CASE tag = "news"                -> Policy(1, TRUE, 0)
      [] tag = "corporate_research"  -> Policy(2, FALSE, 200)
      [] tag = "analysis_newsletter" -> Policy(2, FALSE, 200)
      [] tag = "frontier_lab"        -> Policy(3, FALSE, 100)
      [] tag = "vendor_blog"         -> Policy(3, FALSE, 100)
      [] tag = "policy_org"          -> Policy(4, FALSE, 200)
      [] tag = "press_release"       -> Policy(4, FALSE, 100)
      [] tag = "research_journal"    -> Policy(5, FALSE, 200)
      [] tag = "community_blog"      -> Policy(5, TRUE, 0)
      [] tag = "unknown"             -> Policy(5, FALSE, 200)]

\* the mutant of PolicyFor: a lookup without the "unknown" fallback, which
\* has no policy to give for a tag the table lacks
PolicyOrNothing(source_type) ==
    IF source_type \in DOMAIN INGESTION_POLICY
    THEN INGESTION_POLICY[source_type]
    ELSE Policy(0, FALSE, 0)

\* INGESTION_POLICY.get(source_type, INGESTION_POLICY["unknown"])
PolicyFor(source_type) ==
    IF source_type \in DOMAIN INGESTION_POLICY
    THEN INGESTION_POLICY[source_type]
    ELSE INGESTION_POLICY["unknown"]

\* feed_cfg.get("type", "unknown")
SourceType(feed_cfg) == PyGet(feed_cfg.type, "unknown")

\* policy.get("min_content_length", MIN_CONTENT_LENGTH)
MinLength(policy) ==
    IF "min_content_length" \in DOMAIN policy
    THEN policy.min_content_length
    ELSE MIN_CONTENT_LENGTH

\* ------------------------------------------------------------ Python dict
\* A dict is the sequence of its <<key, value>> pairs in insertion order.
DictKeys(d) == {d[i][1] : i \in 1..Len(d)}

\* key in d
DictHas(d, k) == k \in DictKeys(d)

\* d[key]
DictGet(d, k) == d[CHOOSE i \in 1..Len(d) : d[i][1] = k][2]

\* the mutant of DictSet: a list that is appended to, never looked up
DictSetAppend(d, k, v) == Append(d, <<k, v>>)

\* d[key] = value
DictSet(d, k, v) ==
    IF DictHas(d, k)
    THEN [i \in 1..Len(d) |-> IF d[i][1] = k THEN <<k, v>> ELSE d[i]]
    ELSE Append(d, <<k, v>>)

\* list(d.values())
DictValues(d) == [i \in 1..Len(d) |-> d[i][2]]

\* x in list
InList(x, l) == \E i \in 1..Len(l) : l[i] = x

\* ------------------------------------------------------ rss.py: the inputs
\* config/rss_feeds.yaml as load_feeds returns it: publisher -> {url, type}.
\* "podcast" is a type the policy table does not know; "Anon" declares none.
Feeds == << [publisher |-> "LabBlog", type |-> "frontier_lab"],
            [publisher |-> "Wire",    type |-> "news"],
            [publisher |-> "Pod",     type |-> "podcast"],
            [publisher |-> "Anon",    type |-> NoField] >>

X150 == Text("x", 150, 0)
Y150 == Text("y", 150, 0)
Z300 == Text("z", 300, 4)
Blank == Text("", 0, 2)

\* the content, summary and description keys of a feedparser entry: bodies
\* with text, and bodies whose text is empty or blank
TextBodies ==
    { [content |-> <<X150>>,     summary |-> NoText, description |-> NoText],
      [content |-> <<>>,         summary |-> Y150,   description |-> NoText],
      [content |-> NoList,       summary |-> NoText, description |-> Z300] }

EmptyBodies ==
    { [content |-> <<EmptyStr>>, summary |-> X150,   description |-> NoText],
      [content |-> NoList,       summary |-> NoText, description |-> NoText],
      [content |-> NoList,       summary |-> Blank,  description |-> NoText] }

\* the title and published keys of an entry
TitledMeta == [title |-> "T1", published |-> "D1"]

EntryMetas ==
    { TitledMeta,
      [title |-> "",      published |-> "D2"],
      [title |-> NoField, published |-> NoField] }

Links == {"u1", "u2"}

EntryOf(l, m, b) ==
    [link |-> l, title |-> m.title, published |-> m.published,
     content |-> b.content, summary |-> b.summary, description |-> b.description]

\* the entries a feed can hold: for the first link every text body under every
\* title, for the second link the titled text bodies, and the entries without
\* text or without link
Entries ==
    { EntryOf("u1", m, b) : m \in EntryMetas, b \in TextBodies }
    \cup { EntryOf("u2", TitledMeta, b) : b \in TextBodies }
    \cup { EntryOf("u1", TitledMeta, b) : b \in EmptyBodies }
    \cup { EntryOf(NoField, TitledMeta, b) : b \in TextBodies }

\* extract_content(entry)
extract_content(e) ==
    IF e.content # NoList /\ e.content # <<>> THEN e.content[1]
    ELSE IF e.summary # NoText THEN e.summary
    ELSE IF e.description # NoText THEN e.description
    ELSE EmptyStr

\* ------------------------------------------------- rss.py: fetch_article
\* What one download attempt meets: a timeout, a failed request, or a
\* response from which trafilatura extracts `extracted` (NoneText: nothing).
Attempt(k, x) == [kind |-> k, extracted |-> x]

F120 == Text("f", 120, 3)
F500 == Text("g", 500, 0)
F80 == Text("h", 80, 0)

AttemptOutcomes ==
    { Attempt("timeout", NoneText),
      Attempt("response", F80), Attempt("response", F120), Attempt("response", F500) }

\* what the network does on the attempts of one fetch_article call; an attempt
\* after a response is never made, so scripts differ up to the first response
FetchScripts ==
    { s \in [1..max_retries -> AttemptOutcomes] :
        \A i \in 1..max_retries, j \in 1..max_retries :
            (i < j /\ s[i].kind = "response") => s[j] = s[i] }

\* the script of a fetch_article call that is never made
NoScript == [i \in 1..max_retries |-> Attempt("none", NoneText)]

FetchResult(s, c, err, n, sl) ==
    [success |-> s, content |-> c, error |-> err, attempts |-> n, slept |-> sl]

\* f"{last_error} (after {max_retries} attempts)"
AfterAttempts(last_error) ==
    CASE last_error = "Timeout"        -> "Timeout (after max_retries attempts)"
      [] last_error = "Request failed" -> "Request failed (after max_retries attempts)"
      [] last_error = "Unexpected error" -> "Unexpected error (after max_retries attempts)"
      [] OTHER                         -> "None (after max_retries attempts)"

RECURSIVE FetchLoop(_, _, _, _)
FetchLoop(script, attempt, last_error, slept) ==
    IF attempt >= max_retries
    THEN FetchResult(FALSE, EmptyStr, AfterAttempts(last_error), attempt, slept)
    ELSE LET a == script[attempt + 1] IN
         IF a.kind = "response"
         THEN IF a.extracted # NoneText /\ PyLen(Strip(a.extracted)) > MinExtractedLength
              THEN FetchResult(TRUE, Strip(a.extracted), None, attempt + 1, slept)
              ELSE FetchResult(FALSE, EmptyStr, "Extraction returned empty or too short",
                               attempt + 1, slept)
         ELSE FetchLoop(script, attempt + 1,
                        IF a.kind = "timeout" THEN "Timeout" ELSE "Request failed",
                        IF attempt < max_retries - 1
                        THEN Append(slept, 2 ^ attempt) ELSE slept)

\* fetch_article(url): `script` is what the network does on each attempt
fetch_article(script) == FetchLoop(script, 0, None, <<>>)

\* ------------------------------------------------- rss.py: ingest_rss
\* a mutant of RejectReason: the link is not checked
RejectReasonNoLink(e, policy) ==
    LET raw_content == extract_content(e)
        content == Strip(raw_content)
    IN  IF ~Truthy(raw_content) THEN "no_content"
        ELSE IF PyLen(content) < MinLength(policy) THEN "too_short"
        ELSE "accepted"

\* a mutant of RejectReason: an entry without title is dropped as well
RejectReasonTitle(e, policy) ==
    LET raw_content == extract_content(e)
        content == Strip(raw_content)
    IN  IF ~Truthy(raw_content) THEN "no_content"
        ELSE IF PyLen(content) < MinLength(policy) THEN "too_short"
        ELSE IF PyGet(e.link, "") = "" THEN "no_content"
        ELSE IF PyGet(e.title, "") = "" THEN "no_content"
        ELSE "accepted"

\* The checks an entry passes before `total_items_processed += 1`: the key
\* of `skipped` that is incremented, or "accepted".
RejectReason(e, policy) ==
    LET raw_content == extract_content(e)
        content == Strip(raw_content)
    IN  IF ~Truthy(raw_content) THEN "no_content"
        ELSE IF PyLen(content) < MinLength(policy) THEN "too_short"
        ELSE IF PyGet(e.link, "") = "" THEN "no_content"
        ELSE "accepted"

\* the mutant of AppendIfAbsent: l.append(x) without the membership test
AppendAlways(l, x) == Append(l, x)

\* if x not in l: l.append(x)
AppendIfAbsent(l, x) == IF InList(x, l) THEN l ELSE Append(l, x)

\* the mutant of MergeTier: the tier of the first contribution is kept
MergeTierKeep(existing_tier, policy_tier) == existing_tier

\* min(existing["ingestion_tier"], policy["tier"])
MergeTier(existing_tier, policy_tier) == Min(existing_tier, policy_tier)

\* the mutant of MergeFetchFlag: the flag of the latest contribution wins
MergeFetchFlagLatest(existing_flag, policy_flag) == policy_flag

\* existing["fetch_full_article"] or policy["fetch_full_article"]
MergeFetchFlag(existing_flag, policy_flag) == existing_flag \/ policy_flag

\* a mutant of KeepLongest: `>=`, so a later entry of equal length replaces
KeepLongestOrEqual(existing, content, e) ==
    IF PyLen(content) >= PyLen(existing.content)
    THEN [existing EXCEPT !.content = content,
                          !.title = PyGet(e.title, existing.title),
                          !.published = PyGet(e.published, existing.published)]
    ELSE existing

\* a mutant of KeepLongest: the lengths are not compared, the latest entry wins
KeepLatest(existing, content, e) ==
    [existing EXCEPT !.content = content,
                     !.title = PyGet(e.title, existing.title),
                     !.published = PyGet(e.published, existing.published)]

\* a mutant of KeepLongest: the content is replaced, title and published stay
KeepLongestContentOnly(existing, content, e) ==
    IF PyLen(content) > PyLen(existing.content)
    THEN [existing EXCEPT !.content = content]
    ELSE existing

\* "Keep longest content": content, title and published of `existing`
KeepLongest(existing, content, e) ==
    IF PyLen(content) > PyLen(existing.content)
    THEN [existing EXCEPT !.content = content,
                          !.title = PyGet(e.title, existing.title),
                          !.published = PyGet(e.published, existing.published)]
    ELSE existing

\* the branch `if article_url in items_by_url`
MergeItem(existing, publisher, source_type, policy, content, e) ==
    KeepLongest(
        [existing EXCEPT
            !.publishers = AppendIfAbsent(existing.publishers, publisher),
            !.source_types = AppendIfAbsent(existing.source_types, source_type),
            !.ingestion_tier = MergeTier(existing.ingestion_tier, policy.tier),
            !.fetch_full_article =
                MergeFetchFlag(existing.fetch_full_article, policy.fetch_full_article)],
        content, e)

\* the dict literal of the branch "New URL - create item"
NewItem(article_url, publisher, source_type, policy, content, e) ==
    [id |-> article_url, url |-> article_url,
     publishers |-> <<publisher>>, source_types |-> <<source_type>>,
     ingestion_tier |-> policy.tier,
     fetch_full_article |-> policy.fetch_full_article,
     title |-> PyGet(e.title, ""), published |-> PyGet(e.published, ""),
     content |-> content, content_source |-> "rss",
     fetch_status |-> None, fetch_error |-> NoField]

\* the mutant of ApplyFetch: a failed fetch's (empty) content is stored too
ApplyFetchAlways(item, res) ==
    [item EXCEPT !.content = res.content,
                 !.content_source = IF res.success THEN "full_article" ELSE "rss_fallback",
                 !.fetch_status = IF res.success THEN "success" ELSE "failed",
                 !.fetch_error = IF res.success THEN NoField ELSE res.error]

\* the branch `if policy["fetch_full_article"]` with fetch_article's result
ApplyFetch(item, res) ==
    IF res.success
    THEN [item EXCEPT !.content = res.content,
                      !.content_source = "full_article",
                      !.fetch_status = "success"]
    ELSE [item EXCEPT !.content_source = "rss_fallback",
                      !.fetch_status = "failed",
                      !.fetch_error = res.error]

\* the item the "New URL" branch stores; `res` is read only if the policy fetches
CreateItem(article_url, publisher, source_type, policy, content, e, res) ==
    LET item == NewItem(article_url, publisher, source_type, policy, content, e)
    IN  IF policy.fetch_full_article THEN ApplyFetch(item, res) ELSE item

\* One accepted entry of feed `feed_cfg` folded into the dict d.
Fold(d, feed_cfg, e, res) ==
    LET source_type == SourceType(feed_cfg)
        policy == PolicyFor(source_type)
        content == Strip(extract_content(e))
        article_url == PyGet(e.link, "")
    IN  IF DictHas(d, article_url)
        THEN DictSet(d, article_url,
                     MergeItem(DictGet(d, article_url), feed_cfg.publisher,
                               source_type, policy, content, e))
        ELSE DictSet(d, article_url,
                     CreateItem(article_url, feed_cfg.publisher, source_type,
                                policy, content, e, res))

\* The merge of a whole sequence of accepted entries, each a record
\* [feed, entry, fetched]: what ingest_rss leaves in items_by_url.
RECURSIVE FoldAll(_, _)
FoldAll(d, seq) ==
    IF seq = <<>> THEN d
    ELSE FoldAll(Fold(d, Feeds[seq[1].feed], seq[1].entry, seq[1].fetched), Tail(seq))

\* ------------------------------------------------- gmail.py: fetch_emails
GmailIds == <<"gmail:m1", "gmail:m2", "gmail:m3", "gmail:m4", "gmail:m5">>
GmailUrls == <<"https://mail.google.com/mail/u/0/#inbox/m1",
               "https://mail.google.com/mail/u/0/#inbox/m2",
               "https://mail.google.com/mail/u/0/#inbox/m3",
               "https://mail.google.com/mail/u/0/#inbox/m4",
               "https://mail.google.com/mail/u/0/#inbox/m5">>

G50 == Text("p", 50, 0)
G150 == Text("q", 150, 0)

\* a message of the listing: its Subject, the text extract_email_content
\* returns for it, and whether handling it raises inside the loop's try
GmailMessages ==
    { [subject |-> "AI News Briefing: today", content |-> G150, raises |-> FALSE],
      [subject |-> "Weekly digest", content |-> EmptyStr, raises |-> FALSE],
      [subject |-> "Weekly digest", content |-> G50, raises |-> FALSE],
      [subject |-> "Weekly digest", content |-> G150, raises |-> FALSE],
      [subject |-> "Weekly digest", content |-> G150, raises |-> TRUE] }

\* the names extract_publisher_name can return
GmailPublishers == {"Digest Co"}

\* subject.startswith("AI News Briefing:")
IsSelfBriefing(subject) == subject = "AI News Briefing: today"

\* whether the loop body reaches items.append(item) for the message
GmailKeeps(m) ==
    /\ ~m.raises
    /\ ~IsSelfBriefing(m.subject)
    /\ Truthy(m.content)
    /\ ~(PyLen(m.content) < GmailMinLength)

\* the dict literal "Create item in same format as RSS"
GmailItem(k, m, publisher_name) ==
    [id |-> GmailIds[k], url |-> GmailUrls[k],
     publishers |-> <<publisher_name>>, source_types |-> <<"newsletter">>,
     ingestion_tier |-> GmailTier, fetch_full_article |-> FALSE,
     title |-> m.subject, published |-> "received",
     content |-> m.content, content_source |-> "gmail",
     fetch_status |-> NoField, fetch_error |-> NoField]

\* ------------------------------------- briefing_pipeline.py: run_ingestion
\* the loop over all_items with seen_ids
RECURSIVE UniqueLoop(_, _, _)
UniqueLoop(all_items, seen_ids, unique) ==
    IF all_items = <<>> THEN unique
    ELSE LET item == Head(all_items) IN
         IF item.id \notin seen_ids
         THEN UniqueLoop(Tail(all_items), seen_ids \cup {item.id}, Append(unique, item))
         ELSE UniqueLoop(Tail(all_items), seen_ids, unique)

UniqueById(all_items) == UniqueLoop(all_items, {}, <<>>)

\* ------------------------------------------------------------ the machine
NoEntry == [link |-> None, title |-> None, published |-> None,
            content |-> NoList, summary |-> NoText, description |-> NoText]
\* what fetch_article returned, as far as ingest_rss reads it
Fetched(res) == [success |-> res.success, content |-> res.content, error |-> res.error]
NoFetch == [success |-> FALSE, content |-> NoText, error |-> NoField]
ZeroSkipped == [no_content |-> 0, too_short |-> 0]

\* the inputs consumed so far: Gmail messages and feed entries
Inputs == gmail_seen + total_items_processed + total_skipped
          + skipped.no_content + skipped.too_short

\* the network behaviours to consider while feed i is read
ScriptsFor(i) ==
    IF i \in 1..Len(Feeds) /\ PolicyFor(SourceType(Feeds[i])).fetch_full_article
    THEN FetchScripts ELSE {NoScript}

\* no call of fetch_article is being followed step by step
FetchIdle ==
    /\ fa_pc = "idle"
    /\ fa_limit = max_retries
    /\ fa_attempt = 0
    /\ fa_last_error = None
    /\ fa_slept = <<>>
    /\ fa_calls = 0
    /\ fa_return = NoFetch

\* the topic ids the claim extraction gives
Topics == {"t1", "t2"}

\* the ids a topic_mapping can name: those of the claims and a new one
TopicNames == Topics \cup {"t0"}

\* no call of verify is being followed
VerifyIdle ==
    /\ verify_pc = "idle"
    /\ raw_data = <<>>
    /\ topic_sources = [t \in TopicNames |-> <<>>]
    /\ idx = 1
    /\ initial_claims = <<>>
    /\ oracle_log = <<>>

\* a topic_mapping without entries
NoMapping == [t \in {} |-> "t1"]

\* no call of normalize_topics is being followed
TopicsIdle ==
    /\ topics_pc = "idle"
    /\ mapping = NoMapping
    /\ grouping_calls = 0
    /\ claims_before = <<>>
    /\ grouping_reply = "none"

\* main is not being followed
RunIdle ==
    /\ run_pc = "idle"
    /\ stages = <<>>

\* no call of analyze is being followed
AnalyzeIdle ==
    /\ analyze_pc = "idle"
    /\ total_items = 0
    /\ batch_i = 0
    /\ all_claims = <<>>
    /\ batch_log = <<>>

\* no publisher call is being followed
CacheIdle ==
    /\ publisher_cache = <<>>
    /\ llm_calls = 0
    /\ publisher_return = None
    /\ cache_call = "idle"
    /\ computed = <<>>
    /\ kept = <<>>
    /\ cache_calls = 0

\* a number of days that is not there: a missing key, or no value returned yet
NoDays == -1

\* no config.py call is being followed; _cached_config and CONFIG_FILE are
\* <<>> for None and for no file, <<config>> otherwise
ConfigIdle ==
    /\ cached_config = <<>>
    /\ config_file = <<>>
    /\ config_call = "idle"
    /\ lookback_return = NoDays
    /\ latest_days = NoDays
    /\ config_calls = 0

LaterIdle == RunIdle /\ AnalyzeIdle /\ CacheIdle /\ ConfigIdle

Init ==
    /\ pc = "gmail"
    /\ gmail_items = <<>>
    /\ gmail_seen = 0
    /\ feed_idx = 1
    /\ entry = NoEntry
    /\ items_by_url = <<>>
    /\ skipped = ZeroSkipped
    /\ total_skipped = 0
    /\ total_items_processed = 0
    /\ dedup_count = 0
    /\ folded = <<>>
    /\ unique_items = <<>>
    /\ FetchIdle
    /\ analysis = <<>>
    /\ VerifyIdle
    /\ TopicsIdle
    /\ LaterIdle
    /\ LaterIdle

rssVars == <<feed_idx, entry, items_by_url, skipped, total_skipped,
             total_items_processed, dedup_count, folded>>

\* fetch_emails: one iteration of `for idx, msg in enumerate(messages)`
GmailMessage(m, publisher_name) ==
    /\ pc = "gmail"
    /\ Inputs < MaxInputs
    /\ gmail_seen' = gmail_seen + 1
    /\ gmail_items' = IF GmailKeeps(m)
                      THEN Append(gmail_items, GmailItem(gmail_seen + 1, m, publisher_name))
                      ELSE gmail_items
    /\ UNCHANGED <<pc, unique_items>>
    /\ UNCHANGED rssVars
    /\ UNCHANGED stageVars

\* fetch_emails returns items; all_items.extend(gmail_items)
GmailReturn ==
    /\ pc = "gmail"
    /\ pc' = "rss_feed"
    /\ UNCHANGED <<gmail_items, gmail_seen, unique_items>>
    /\ UNCHANGED rssVars
    /\ UNCHANGED stageVars

\* get_gmail_service or the listing raises: "Continuing with RSS only..."
GmailFail ==
    /\ pc = "gmail"
    /\ gmail_seen = 0
    /\ pc' = "rss_feed"
    /\ UNCHANGED <<gmail_items, gmail_seen, unique_items>>
    /\ UNCHANGED rssVars
    /\ UNCHANGED stageVars

\* ingest_rss: feedparser.parse(url) succeeds for the next feed
ParseFeed ==
    /\ pc = "rss_feed"
    /\ feed_idx <= Len(Feeds)
    /\ pc' = "rss_entries"
    /\ skipped' = ZeroSkipped
    /\ UNCHANGED <<gmail_items, gmail_seen, unique_items, feed_idx, entry, items_by_url,
                   total_skipped, total_items_processed, dedup_count, folded>>
    /\ UNCHANGED stageVars

\* ingest_rss: feedparser.parse(url) raises; the feed is passed over
FeedError ==
    /\ pc = "rss_feed"
    /\ feed_idx <= Len(Feeds)
    /\ feed_idx' = feed_idx + 1
    /\ skipped' = ZeroSkipped
    /\ UNCHANGED <<pc, gmail_items, gmail_seen, unique_items, entry, items_by_url,
                   total_skipped, total_items_processed, dedup_count, folded>>
    /\ UNCHANGED stageVars

\* ingest_rss: an entry that one of the three `continue`s drops
SkipEntry(e) ==
    LET policy == PolicyFor(SourceType(Feeds[feed_idx]))
        reason == RejectReason(e, policy)
    IN  /\ pc = "rss_entries"
        /\ Inputs < MaxInputs
        /\ reason # "accepted"
        /\ entry' = e
        /\ skipped' = [skipped EXCEPT ![reason] = @ + 1]
        /\ UNCHANGED <<pc, gmail_items, gmail_seen, unique_items, feed_idx, items_by_url,
                       total_skipped, total_items_processed, dedup_count, folded>>
        /\ UNCHANGED stageVars

\* ingest_rss: an entry whose URL is in items_by_url
MergeEntry(e) ==
    LET policy == PolicyFor(SourceType(Feeds[feed_idx]))
    IN  /\ pc = "rss_entries"
        /\ Inputs < MaxInputs
        /\ RejectReason(e, policy) = "accepted"
        /\ DictHas(items_by_url, PyGet(e.link, ""))
        /\ entry' = e
        /\ total_items_processed' = total_items_processed + 1
        /\ items_by_url' = Fold(items_by_url, Feeds[feed_idx], e, NoFetch)
        /\ dedup_count' = dedup_count + 1
        /\ folded' = Append(folded, [feed |-> feed_idx, entry |-> e, fetched |-> NoFetch])
        /\ UNCHANGED <<pc, gmail_items, gmail_seen, unique_items, feed_idx, skipped,
                       total_skipped>>
        /\ UNCHANGED stageVars

\* ingest_rss: an entry whose URL is new; `script` is what the network does
\* if fetch_article is called
CreateEntry(e, script) ==
    LET policy == PolicyFor(SourceType(Feeds[feed_idx]))
        res == fetch_article(script)
        fetched == IF policy.fetch_full_article THEN Fetched(res) ELSE NoFetch
    IN  /\ pc = "rss_entries"
        /\ Inputs < MaxInputs
        /\ RejectReason(e, policy) = "accepted"
        /\ ~DictHas(items_by_url, PyGet(e.link, ""))
        /\ entry' = e
        /\ total_items_processed' = total_items_processed + 1
        /\ items_by_url' = Fold(items_by_url, Feeds[feed_idx], e, fetched)
        /\ folded' = Append(folded, [feed |-> feed_idx, entry |-> e, fetched |-> fetched])
        /\ UNCHANGED <<pc, gmail_items, gmail_seen, unique_items, feed_idx, skipped,
                       total_skipped, dedup_count>>
        /\ UNCHANGED stageVars

\* ingest_rss: the end of `for entry in feed.entries`
EndFeed ==
    /\ pc = "rss_entries"
    /\ total_skipped' = total_skipped + skipped.no_content + skipped.too_short
    /\ skipped' = ZeroSkipped
    /\ feed_idx' = feed_idx + 1
    /\ pc' = "rss_feed"
    /\ UNCHANGED <<gmail_items, gmail_seen, unique_items, entry, items_by_url,
                   total_items_processed, dedup_count, folded>>
    /\ UNCHANGED stageVars

\* run_ingestion after the two sources: the ValueError or the seen_ids loop
Collect(all_items) ==
    IF all_items = <<>>
    THEN pc' = "failed" /\ UNCHANGED unique_items
    ELSE pc' = "done" /\ unique_items' = UniqueById(all_items)

\* ingest_rss returns after the last feed; run_ingestion reads its output back
RssReturn ==
    /\ pc = "rss_feed"
    /\ feed_idx > Len(Feeds)
    /\ Collect(gmail_items \o DictValues(items_by_url))
    /\ UNCHANGED <<gmail_items, gmail_seen>>
    /\ UNCHANGED rssVars
    /\ UNCHANGED stageVars

\* ingest_rss raises (load_feeds before the first feed, the output file after
\* the last): "RSS ingestion failed", all_items holds the Gmail items alone
RssFail ==
    /\ pc = "rss_feed"
    /\ feed_idx = 1 \/ feed_idx > Len(Feeds)
    /\ Collect(gmail_items)
    /\ UNCHANGED <<gmail_items, gmail_seen>>
    /\ UNCHANGED rssVars
    /\ UNCHANGED stageVars

Next ==
    \/ \E m \in GmailMessages, n \in GmailPublishers : GmailMessage(m, n)
    \/ GmailReturn
    \/ GmailFail
    \/ ParseFeed
    \/ FeedError
    \/ \E e \in Entries : SkipEntry(e)
    \/ \E e \in Entries : MergeEntry(e)
    \/ \E e \in Entries : \E script \in ScriptsFor(feed_idx) : CreateEntry(e, script)
    \/ EndFeed
    \/ RssReturn
    \/ RssFail

Spec == Init /\ [][Next]_vars

\* ------------------------------------------------------------ properties
\* all_items of ingest_rss
RssItems == DictValues(items_by_url)

\* the accepted entries folded so far whose link is url, in order
Contribs(url) ==
    LET Test(f) == PyGet(f.entry.link, "") = url
    IN  SelectSeq(folded, Test)

\* the policy an accepted entry was read under
ContribPolicy(f) == PolicyFor(SourceType(Feeds[f.feed]))

\* the body an accepted entry offers to the merge
ContribContent(f) == Strip(extract_content(f.entry))

NoDuplicates(l) == \A i, j \in 1..Len(l) : i # j => l[i] # l[j]

SeqMin(S) == CHOOSE x \in S : \A y \in S : x <= y

\* C1: no two records of the RSS output share a URL, every accepted entry's URL
\* has its record, and no two records of the pipeline's output share an id.
C1_UniqueKeys ==
    /\ \A i, j \in 1..Len(RssItems) : i # j => RssItems[i].url # RssItems[j].url
    /\ {RssItems[i].url : i \in 1..Len(RssItems)}
         = {PyGet(folded[i].entry.link, "") : i \in 1..Len(folded)}
    /\ \A i \in 1..Len(RssItems) : Contribs(RssItems[i].url) # <<>>
    /\ \A i, j \in 1..Len(unique_items) : i # j => unique_items[i].id # unique_items[j].id

\* a run that merged an entry into an existing record and produced its output
C1_Witness ==
    /\ pc = "done"
    /\ dedup_count >= 1
    /\ \E i \in 1..Len(unique_items) : Len(Contribs(unique_items[i].id)) >= 2

\* the tier the claim of C2 gives an item: the least policy tier over its tags
TagTier(item) ==
    SeqMin({PolicyFor(item.source_types[i]).tier : i \in 1..Len(item.source_types)})

\* C2 as claimed: every item, from the RSS merge or from Gmail, has the least
\* policy tier over its source_types, an unknown tag counting as "unknown".
C2_Claimed ==
    /\ \A i \in 1..Len(RssItems) : RssItems[i].ingestion_tier = TagTier(RssItems[i])
    /\ \A i \in 1..Len(gmail_items) : gmail_items[i].ingestion_tier = TagTier(gmail_items[i])
    /\ \A i \in 1..Len(unique_items) : unique_items[i].ingestion_tier = TagTier(unique_items[i])

\* C2 as amended: every item of the RSS merge has the least policy tier over
\* its source_types, which are the types of the feeds whose entries were folded
\* into it; a Gmail item has tier 2 under the tag "newsletter".
C2_RssTier ==
    /\ \A i \in 1..Len(RssItems) :
         LET item == RssItems[i]
             c == Contribs(item.url)
         IN  /\ item.ingestion_tier = TagTier(item)
             /\ item.ingestion_tier = SeqMin({ContribPolicy(c[k]).tier : k \in 1..Len(c)})
             /\ {item.source_types[k] : k \in 1..Len(item.source_types)}
                  = {SourceType(Feeds[c[k].feed]) : k \in 1..Len(c)}
    /\ \A i \in 1..Len(gmail_items) :
         /\ gmail_items[i].ingestion_tier = GmailTier
         /\ gmail_items[i].source_types = <<"newsletter">>

\* an item merged from a feed of a known type and the feed of the unknown type
\* "podcast", whose tier is the known type's
C2_Witness ==
    /\ \E i \in 1..Len(RssItems) :
         /\ Len(RssItems[i].source_types) >= 2
         /\ InList("podcast", RssItems[i].source_types)
         /\ RssItems[i].ingestion_tier < PolicyFor("podcast").tier

\* C3: an item's fetch_full_article is the OR of the policy flags of the
\* accepted entries folded into it (so a later fold never resets it).
C3_FetchFlagIsOr ==
    \A i \in 1..Len(RssItems) :
        LET c == Contribs(RssItems[i].url)
        IN  RssItems[i].fetch_full_article
              = (\E k \in 1..Len(c) : ContribPolicy(c[k]).fetch_full_article)

\* an item created under a fetching policy with a later entry of a policy
\* that does not fetch folded into it
C3_Witness ==
    \E i \in 1..Len(RssItems) :
        LET c == Contribs(RssItems[i].url)
        IN  /\ Len(c) >= 2
            /\ ContribPolicy(c[1]).fetch_full_article
            /\ ~ContribPolicy(c[Len(c)]).fetch_full_article
            /\ RssItems[i].fetch_full_article

\* C4: publishers and source_types of every item hold no value twice.
C4_NoDuplicates ==
    \A i \in 1..Len(RssItems) :
        /\ NoDuplicates(RssItems[i].publishers)
        /\ NoDuplicates(RssItems[i].source_types)

\* the same entry of the same feed folded twice, its publisher listed once
C4_Witness ==
    \E i \in 1..Len(RssItems) :
        LET c == Contribs(RssItems[i].url)
        IN  /\ Len(c) >= 2
            /\ c[1] = c[2]
            /\ Len(RssItems[i].publishers) = 1

\* the stripped feed bodies of a sequence of accepted entries
Bodies(c) == [k \in 1..Len(c) |-> ContribContent(c[k])]

\* the first of the longest texts of a sequence
FirstLongest(texts) ==
    texts[CHOOSE i \in 1..Len(texts) :
            /\ \A j \in 1..Len(texts) : PyLen(texts[j]) <= PyLen(texts[i])
            /\ \A j \in 1..(i - 1) : PyLen(texts[j]) < PyLen(texts[i])]

\* the content a record starts with: the fetched article if the creating
\* entry's fetch succeeded, the entry's own body otherwise
SeedContent(f) == IF f.fetched.success THEN f.fetched.content ELSE ContribContent(f)

\* C5 as claimed: an item's content is at least as long as every entry E1..En
\* folded into it and is the first of the longest of their bodies.
C5_Claimed ==
    \A i \in 1..Len(RssItems) :
        LET c == Contribs(RssItems[i].url)
        IN  /\ \A k \in 1..Len(c) : PyLen(RssItems[i].content) >= PyLen(ContribContent(c[k]))
            /\ RssItems[i].content = FirstLongest(Bodies(c))

\* C5 as amended: an item's content is the first of the longest among the
\* content its record started with (the fetched article if the creating entry's
\* fetch succeeded, else E1's body) and the bodies of E2..En.
C5_LongestFromSeed ==
    \A i \in 1..Len(RssItems) :
        LET c == Contribs(RssItems[i].url)
        IN  RssItems[i].content
              = FirstLongest([k \in 1..Len(c) |->
                                IF k = 1 THEN SeedContent(c[1]) ELSE ContribContent(c[k])])

\* two entries of equal length and different text folded under one key, no
\* article fetched: the first one's text is the content
C5_Witness ==
    \E i \in 1..Len(RssItems) :
        LET c == Contribs(RssItems[i].url)
        IN  /\ Len(c) >= 2
            /\ ~c[1].fetched.success
            /\ PyLen(ContribContent(c[1])) = PyLen(ContribContent(c[2]))
            /\ ContribContent(c[1]) # ContribContent(c[2])
            /\ RssItems[i].content = ContribContent(c[1])

\* the lengths a record's content is compared with, fold by fold
FoldedTexts(c) ==
    [k \in 1..Len(c) |-> IF k = 1 THEN SeedContent(c[1]) ELSE ContribContent(c[k])]

\* the contribution that supplied the current content: the first of the longest
Supplier(c) ==
    CHOOSE i \in 1..Len(c) :
        /\ \A j \in 1..Len(c) : PyLen(FoldedTexts(c)[j]) <= PyLen(FoldedTexts(c)[i])
        /\ \A j \in 1..(i - 1) : PyLen(FoldedTexts(c)[j]) < PyLen(FoldedTexts(c)[i])

\* the contributions that supplied the content at some point: the creating
\* entry and every entry strictly longer than all before it
Suppliers(c) ==
    {k \in 1..Len(c) :
        k = 1 \/ \A j \in 1..(k - 1) : PyLen(FoldedTexts(c)[j]) < PyLen(FoldedTexts(c)[k])}

SetMax(S) == CHOOSE x \in S : \A y \in S : y <= x

\* C6 as claimed: an item's title and published are the values of the entry
\* that supplied its current content (an entry without the key having the
\* value "" that a new record gets for it).
C6_Claimed ==
    \A i \in 1..Len(RssItems) :
        LET c == Contribs(RssItems[i].url)
            e == c[Supplier(c)].entry
        IN  /\ RssItems[i].title = PyGet(e.title, "")
            /\ RssItems[i].published = PyGet(e.published, "")

\* C6 as amended: an item's title (its published) is the value of the latest
\* entry that supplied its content and carries a title (a published); it is ""
\* if no such entry carried one.  An entry that supplies the content without
\* carrying the key leaves the previous value in place.
C6_TitleOfLatestSupplier ==
    \A i \in 1..Len(RssItems) :
        LET c == Contribs(RssItems[i].url)
            titled == {k \in Suppliers(c) : c[k].entry.title # NoField}
            dated == {k \in Suppliers(c) : c[k].entry.published # NoField}
        IN  /\ RssItems[i].title
                 = IF titled = {} THEN "" ELSE c[SetMax(titled)].entry.title
            /\ RssItems[i].published
                 = IF dated = {} THEN "" ELSE c[SetMax(dated)].entry.published
            /\ RssItems[i].content = FoldedTexts(c)[SetMax(Suppliers(c))]

\* a later, strictly longer entry with another title replaced content, title
\* and published
C6_Witness ==
    \E i \in 1..Len(RssItems) :
        LET c == Contribs(RssItems[i].url)
        IN  /\ Len(c) >= 2
            /\ Supplier(c) = 2
            /\ c[2].entry.title # NoField
            /\ c[2].entry.title # c[1].entry.title
            /\ RssItems[i].title = c[2].entry.title
            /\ RssItems[i].published = c[2].entry.published
            /\ RssItems[i].content = ContribContent(c[2])

\* the outcomes fetch_article can have, as ingest_rss reads them
FetchOutcomes == {Fetched(fetch_article(script)) : script \in FetchScripts}

\* the reorderings of n entries
Orders(n) == {p \in [1..n -> 1..n] : \A i, j \in 1..n : i # j => p[i] # p[j]}

\* the folded entries in the order p, the fetch of a URL answering as `web` says
Reordered(p, web) ==
    [i \in 1..Len(folded) |->
        [feed |-> folded[p[i]].feed, entry |-> folded[p[i]].entry,
         fetched |-> web[folded[p[i]].entry.link]]]

\* an order ingest_rss can meet: the entries of a feed come together
FeedsTogether(seq) ==
    \A i, j, k \in 1..Len(seq) :
        (i < j /\ j < k /\ seq[i].feed = seq[k].feed) => seq[j].feed = seq[i].feed

\* no two contributions to a key share the greatest length among them
NoLongestTie ==
    \A url \in Links :
        LET b == Bodies(Contribs(url))
        IN  \A i, j \in 1..Len(b) :
                (i # j /\ PyLen(b[i]) = PyLen(b[j]))
                    => \E k \in 1..Len(b) : PyLen(b[k]) > PyLen(b[i])

\* web answers as the fetches of this run did
AgreesWithRun(web) ==
    \A i \in 1..Len(folded) :
        folded[i].fetched # NoFetch => web[folded[i].entry.link] = folded[i].fetched

\* C7 as claimed: when no two contributions to a key tie for the greatest
\* length, the merge of the same entries in any other order leaves the same
\* content under every key.
C7_Claimed ==
    (pc = "done" /\ NoLongestTie) =>
        \A p \in Orders(Len(folded)), web \in [Links -> FetchOutcomes] :
            (AgreesWithRun(web) /\ FeedsTogether(Reordered(p, web))) =>
                LET other == FoldAll(<<>>, Reordered(p, web))
                IN  /\ DictKeys(other) = DictKeys(items_by_url)
                    /\ \A url \in DictKeys(items_by_url) :
                           DictGet(other, url).content = DictGet(items_by_url, url).content

\* the outcomes of a fetch_article call that fails
FailedOutcomes == {o \in FetchOutcomes : ~o.success}

\* C7 as amended: when no two contributions to a key tie for the greatest
\* length and no fetch of a full article succeeds, in this order or another, the
\* merge of the same entries in any other order leaves the same content under
\* every key.
C7_SameContentWithoutFetchedBody ==
    (pc = "done" /\ NoLongestTie) =>
        \A p \in Orders(Len(folded)), web \in [Links -> FailedOutcomes] :
            (AgreesWithRun(web) /\ FeedsTogether(Reordered(p, web))) =>
                LET other == FoldAll(<<>>, Reordered(p, web))
                IN  /\ DictKeys(other) = DictKeys(items_by_url)
                    /\ \A url \in DictKeys(items_by_url) :
                           DictGet(other, url).content = DictGet(items_by_url, url).content

\* a finished run that folded two entries of different length under one key,
\* the first of them under a policy whose fetch failed
C7_Witness ==
    /\ pc = "done"
    /\ NoLongestTie
    /\ \E url \in Links :
         LET c == Contribs(url)
         IN  /\ Len(c) >= 2
             /\ ContribPolicy(c[1]).fetch_full_article
             /\ c[1].fetched \in FailedOutcomes
             /\ PyLen(ContribContent(c[1])) > PyLen(ContribContent(c[2]))

\* a step of ingest_rss that handled one entry of the current feed
EntryStep == gmail_seen' = gmail_seen /\ Inputs' = Inputs + 1

\* the policy of the feed being read
CurrentPolicy == PolicyFor(SourceType(Feeds[feed_idx]))

\* the entries C8 says are rejected: no key, no content, or content shorter
\* than the policy's min_content_length
MustReject(e, policy) ==
    \/ PyGet(e.link, "") = ""
    \/ PyLen(extract_content(e)) = 0
    \/ PyLen(Strip(extract_content(e))) < policy.min_content_length

C9_Claimed ==
    \A i \in 1..Len(RssItems) :
        PyGet(Contribs(RssItems[i].url)[1].entry.title, "") # ""

\* C9 as amended: an entry with an unseen key that has a key and a content of
\* the policy's length creates a record whatever its title, an empty title
\* included; the record's title is the entry's, "" if it has none.
C9_TitleNotChecked ==
    [][(EntryStep /\ ~MustReject(entry', CurrentPolicy)
                  /\ ~DictHas(items_by_url, PyGet(entry'.link, ""))) =>
          /\ DictKeys(items_by_url') = DictKeys(items_by_url) \cup {entry'.link}
          /\ Len(items_by_url') = Len(items_by_url) + 1
          /\ DictGet(items_by_url', entry'.link).title = PyGet(entry'.title, "")
          /\ total_items_processed' = total_items_processed + 1]_vars

\* a record that an entry with an empty title created
C9_Witness ==
    \E i \in 1..Len(RssItems) :
        /\ PyGet(Contribs(RssItems[i].url)[1].entry.title, "") = ""
        /\ RssItems[i].title = ""

\* a step of ingest_rss that created a record under a policy that fetches
FetchingCreateStep ==
    /\ EntryStep
    /\ total_items_processed' = total_items_processed + 1
    /\ dedup_count' = dedup_count
    /\ CurrentPolicy.fetch_full_article

\* C10: the record a fetching policy's entry creates holds either the fetched
\* body, marked full_article/success, or the feed's body, marked
\* rss_fallback/failed; it is created either way and the feed is read on.
C10_FetchOutcome ==
    [][FetchingCreateStep =>
          LET url == PyGet(entry'.link, "")
              new == DictGet(items_by_url', url)
              fetched == folded'[Len(folded')].fetched
          IN  /\ ~DictHas(items_by_url, url)
              /\ DictHas(items_by_url', url)
              /\ Len(items_by_url') = Len(items_by_url) + 1
              /\ pc' = "rss_entries"
              /\ fetched \in FetchOutcomes
              /\ \/ /\ fetched.success
                    /\ new.content = fetched.content
                    /\ new.content_source = "full_article"
                    /\ new.fetch_status = "success"
                 \/ /\ ~fetched.success
                    /\ new.content = Strip(extract_content(entry'))
                    /\ new.content_source = "rss_fallback"
                    /\ new.fetch_status = "failed"]_vars

\* one record whose fetch succeeded next to one whose fetch failed
C10_Witness ==
    \E i, j \in 1..Len(RssItems) :
        /\ RssItems[i].fetch_status = "success"
        /\ RssItems[i].content_source = "full_article"
        /\ RssItems[j].fetch_status = "failed"
        /\ RssItems[j].content_source = "rss_fallback"
        /\ RssItems[j].content = ContribContent(Contribs(RssItems[j].url)[1])

\* ================================================== fetch_article, stepwise
\* The ingestion stage at rest, while another function is followed.
IngestIdle ==
    /\ pc = "idle"
    /\ gmail_items = <<>>
    /\ gmail_seen = 0
    /\ feed_idx = 1
    /\ entry = NoEntry
    /\ items_by_url = <<>>
    /\ skipped = ZeroSkipped
    /\ total_skipped = 0
    /\ total_items_processed = 0
    /\ dedup_count = 0
    /\ folded = <<>>
    /\ unique_items = <<>>

ingestVars == <<pc, gmail_items, gmail_seen, unique_items, rssVars>>

\* the values of the argument max_retries (its default is max_retries)
RetryLimits == 0..MaxRetryLimit

F100 == Text("k", 100, 2)

\* what trafilatura.extract returns for a downloaded page
ExtractOutcomes == {NoneText, EmptyStr, F80, F100, F120, F500}

\* the exceptions of requests.get and raise_for_status, by the handler that
\* catches them
RequestErrors == {"Timeout", "Request failed"}

\* the mutant of SleepsAfter: the backoff is slept after the last attempt too
SleepsAlways(attempt, limit) == TRUE

\* `if attempt < max_retries - 1`
SleepsAfter(attempt, limit) == attempt < limit - 1

\* `backoff = 2 ** attempt`
Backoff(attempt) == 2 ^ attempt

\* `if extracted and len(extracted.strip()) > 100`
ExtractedEnough(extracted) ==
    /\ extracted # NoneText
    /\ Truthy(extracted)
    /\ PyLen(Strip(extracted)) > MinExtractedLength

notFetchVars == <<ingestVars, analysis, verifyVars, topicVars, laterVars>>

FetchInit ==
    /\ IngestIdle
    /\ analysis = <<>>
    /\ VerifyIdle
    /\ TopicsIdle
    /\ LaterIdle
    /\ fa_pc = "loop"
    /\ fa_limit \in RetryLimits
    /\ fa_attempt = 0
    /\ fa_last_error = None
    /\ fa_slept = <<>>
    /\ fa_calls = 0
    /\ fa_return = NoFetch

\* requests.get or raise_for_status raises; the except clause records it
FetchRequestRaises(err) ==
    /\ fa_pc = "loop"
    /\ fa_attempt < fa_limit
    /\ fa_calls' = fa_calls + 1
    /\ fa_last_error' = err
    /\ fa_pc' = "backoff"
    /\ UNCHANGED <<fa_limit, fa_attempt, fa_slept, fa_return>>
    /\ UNCHANGED notFetchVars

\* the page is downloaded and trafilatura.extract raises
FetchExtractRaises ==
    /\ fa_pc = "loop"
    /\ fa_attempt < fa_limit
    /\ fa_calls' = fa_calls + 1
    /\ fa_last_error' = "Unexpected error"
    /\ fa_pc' = "backoff"
    /\ UNCHANGED <<fa_limit, fa_attempt, fa_slept, fa_return>>
    /\ UNCHANGED notFetchVars

\* the page is downloaded and trafilatura.extract returns: one of the two
\* return statements inside the try
FetchResponse(extracted) ==
    /\ fa_pc = "loop"
    /\ fa_attempt < fa_limit
    /\ fa_calls' = fa_calls + 1
    /\ fa_return' = IF ExtractedEnough(extracted)
                    THEN [success |-> TRUE, content |-> Strip(extracted), error |-> None]
                    ELSE [success |-> FALSE, content |-> EmptyStr,
                          error |-> "Extraction returned empty or too short"]
    /\ fa_pc' = "returned"
    /\ UNCHANGED <<fa_limit, fa_attempt, fa_last_error, fa_slept>>
    /\ UNCHANGED notFetchVars

\* after an except clause: the sleep, if any, and the next iteration
FetchBackoff ==
    /\ fa_pc = "backoff"
    /\ fa_slept' = IF SleepsAfter(fa_attempt, fa_limit)
                   THEN Append(fa_slept, Backoff(fa_attempt))
                   ELSE fa_slept
    /\ fa_attempt' = fa_attempt + 1
    /\ fa_pc' = "loop"
    /\ UNCHANGED <<fa_limit, fa_last_error, fa_calls, fa_return>>
    /\ UNCHANGED notFetchVars

\* range(max_retries) is exhausted: the return after the loop
FetchGiveUp ==
    /\ fa_pc = "loop"
    /\ fa_attempt >= fa_limit
    /\ fa_return' = [success |-> FALSE, content |-> EmptyStr,
                     error |-> AfterAttempts(fa_last_error)]
    /\ fa_pc' = "returned"
    /\ UNCHANGED <<fa_limit, fa_attempt, fa_last_error, fa_slept, fa_calls>>
    /\ UNCHANGED notFetchVars

FetchNext ==
    \/ \E err \in RequestErrors : FetchRequestRaises(err)
    \/ FetchExtractRaises
    \/ \E extracted \in ExtractOutcomes : FetchResponse(extracted)
    \/ FetchBackoff
    \/ FetchGiveUp

\* a call of fetch_article keeps running: nothing in it waits for anything
\* but the network call and the sleep, which both end
FetchSpec == FetchInit /\ [][FetchNext]_vars /\ WF_vars(FetchNext)

\* the sleeps of k failed attempts that were each followed by another one
BackoffSeq(k) == [i \in 1..k |-> 2 ^ (i - 1)]

\* what holds of every state of a call
FetchBounded ==
    /\ fa_calls <= fa_limit
    /\ fa_slept = BackoffSeq(Len(fa_slept))
    /\ fa_pc = "loop" /\ fa_attempt < fa_limit => Len(fa_slept) = fa_calls
    /\ fa_pc = "returned" =>
          /\ fa_return.success \in BOOLEAN
          /\ fa_return.success =>
                /\ PyLen(fa_return.content) > MinExtractedLength
                /\ fa_return.error = None
          /\ ~fa_return.success => fa_return.content = EmptyStr /\ fa_return.error # None
          /\ fa_calls = fa_limit /\ fa_limit > 0 => Len(fa_slept) = fa_limit - 1
          /\ Len(fa_slept) <= fa_calls
          /\ fa_return.error = AfterAttempts(fa_last_error)
                => ~fa_return.success /\ fa_calls = fa_limit

\* a download is attempted first, or after an attempt that raised
RetryAfterFailure ==
    fa_calls' > fa_calls =>
        /\ fa_pc = "loop"
        /\ fa_calls' = fa_calls + 1
        /\ fa_calls > 0 => fa_last_error # None /\ fa_return = NoFetch

\* C11: fetch_article returns a (success, content, error) triple on every
\* run; it calls requests.get at most max_retries times, again only after an
\* attempt that raised; it sleeps 2^attempt seconds after each failed attempt
\* but the last; when every attempt has failed it returns (False, "", error).
C11_FetchTerminates ==
    /\ <>(fa_pc = "returned")
    /\ []FetchBounded
    /\ [][RetryAfterFailure]_vars

\* three attempts that all raise: two sleeps, of 1 and 2 seconds, then failure
C11_Witness ==
    /\ fa_pc = "returned"
    /\ fa_limit = max_retries
    /\ fa_calls = max_retries
    /\ fa_slept = <<1, 2>>
    /\ ~fa_return.success
    /\ fa_return.content = EmptyStr
    /\ fa_return.error = "Timeout (after max_retries attempts)"

\* ======================================================= policy resolution
\* category tags: those of the table, two it lacks, the empty string, a YAML
\* null and a feed without `type`
TagUniverse == PolicyTags \cup {"podcast", "newsletter", "", None, NoField}

\* the policy ingest_rss resolves for feed_cfg is the tag's own, or "unknown"
Resolved(feed_cfg) ==
    LET policy == PolicyFor(SourceType(feed_cfg))
    IN  IF feed_cfg.type \in PolicyTags
        THEN policy = INGESTION_POLICY[feed_cfg.type]
        ELSE policy = INGESTION_POLICY["unknown"]

\* C12: for every category tag, and for a feed that declares no type, the
\* lookup of ingest_rss gives the tag's own policy if the table has the tag
\* and the "unknown" policy otherwise; so does every feed of the run.
C12_PolicyTotal ==
    /\ \A tag \in TagUniverse : Resolved([publisher |-> "p", type |-> tag])
    /\ pc = "rss_entries" => Resolved(Feeds[feed_idx])
    /\ \A i \in 1..Len(folded) : Resolved(Feeds[folded[i].feed])

\* an entry of the feed without type was accepted under the "unknown" policy
C12_Witness ==
    /\ pc = "rss_entries"
    /\ Feeds[feed_idx].type = NoField
    /\ \E i \in 1..Len(RssItems) :
          /\ RssItems[i].source_types = <<"unknown">>
          /\ RssItems[i].ingestion_tier = INGESTION_POLICY["unknown"].tier
          /\ PyLen(RssItems[i].content) >= INGESTION_POLICY["unknown"].min_content_length

\* ========================================================= core/verify.py
\* A claim as analyze returns it; the text is what the oracle is asked about.
Claim(c, ids, t) == [text |-> "claim", confidence |-> c, source_ids |-> ids, topic_id |-> t]

\* "s9" is an id that no item of raw_data has
ClaimInputs ==
    { Claim("reported", <<"s1">>, "t1"),
      Claim("reported", <<"s1", "s2">>, "t1"),
      Claim("reported", <<"s1", "s1">>, "t1"),
      Claim("reported", <<"s9">>, "t2"),
      Claim("inferred", <<"s1", "s2">>, "t1"),
      Claim("inferred", <<"s1">>, "t2"),
      Claim("speculative", <<"s1", "s2">>, "t2"),
      Claim("speculative", <<"s9">>, "t1") }

ClaimLists == UNION { [1..n -> ClaimInputs] : n \in 0..MaxClaims }

Item(i, c, t) == [id |-> i, content |-> c, topic_id |-> t]

\* raw_data: nothing, the items of the ingestion (which carry no topic_id),
\* and items that carry a topic_id of their own
RawDataInputs ==
    { <<>>,
      << Item("s1", "body1", NoField), Item("s2", "body2", NoField) >>,
      << Item("s1", "body1", "t1"), Item("s2", "body2", "t1") >> }

\* response.choices[0].message.content
Answers == {"YES", " yes\n", "NO", "", "Yes, the second source disputes it."}

\* answer.strip().upper()
StripUpper(answer) ==
    CASE answer = "YES"     -> "YES"
      [] answer = " yes\n"  -> "YES"
      [] answer = "NO"      -> "NO"
      [] answer = ""        -> ""
      [] OTHER              -> "YES, THE SECOND SOURCE DISPUTES IT."

\* startswith("YES"), for the mutant of IsYes
StartsWithYes(answer) == StripUpper(answer) \in {"YES", "YES, THE SECOND SOURCE DISPUTES IT."}

\* `return answer == "YES"`
IsYes(answer) == StripUpper(answer) = "YES"

\* items_by_id.get(sid): the items whose id is sid
ItemsWithId(raw, sid) == SelectSeq(raw, LAMBDA item : item.id = sid)

\* the contents a claim adds to its topic in the fallback loop
ClaimContents(raw, claim) ==
    LET found == SelectSeq(claim.source_ids, LAMBDA sid : ItemsWithId(raw, sid) # <<>>)
    IN  [k \in 1..Len(found) |->
            ItemsWithId(raw, found[k])[Len(ItemsWithId(raw, found[k]))].content]

\* the fallback loop over the claims: topic t's list
RECURSIVE FromClaims(_, _, _)
FromClaims(raw, claims, t) ==
    IF claims = <<>> THEN <<>>
    ELSE (IF claims[1].topic_id = t THEN ClaimContents(raw, claims[1]) ELSE <<>>)
         \o FromClaims(raw, Tail(claims), t)

\* the first loop, over raw_data: topic t's list
FromItems(raw, t) ==
    LET of_t == SelectSeq(raw, LAMBDA item : PyGet(item.topic_id, None) = t)
    IN  [k \in 1..Len(of_t) |-> of_t[k].content]

\* topic_sources as verify builds it, read through .get(topic_id, [])
TopicSources(raw, claims) ==
    IF FromItems(raw, None) # <<>>
    THEN [t \in TopicNames |-> FromClaims(raw, claims, t)]
    ELSE [t \in TopicNames |-> FromItems(raw, t)]

\* the distinct elements of seq, in the order of their first occurrence
RECURSIVE Distinct(_)
Distinct(seq) ==
    IF seq = <<>> THEN <<>>
    ELSE LET front == Distinct(SubSeq(seq, 1, Len(seq) - 1))
         IN  IF InList(seq[Len(seq)], front) THEN front ELSE Append(front, seq[Len(seq)])

\* a mutant of Rule1: the source ids are counted, and stored, without repeats
Rule1Distinct(claim) ==
    IF Len(Distinct(claim.source_ids)) >= 2 /\ claim.confidence = "reported"
    THEN [claim EXCEPT !.confidence = "corroborated", !.source_ids = Distinct(@)]
    ELSE [claim EXCEPT !.source_ids = Distinct(@)]

\* a mutant of Rule1: the claim's confidence is not examined
Rule1AnyConfidence(claim) ==
    IF Len(claim.source_ids) >= 2
    THEN [claim EXCEPT !.confidence = "corroborated"]
    ELSE claim

\* Rule 1: `if source_count >= 2 and claim["confidence"] == "reported"`
Rule1(claim) ==
    IF Len(claim.source_ids) >= 2 /\ claim.confidence = "reported"
    THEN [claim EXCEPT !.confidence = "corroborated"]
    ELSE claim

\* a mutant of Rule2: a corroborated claim is not contested
Rule2KeepCorroborated(claim, contested) ==
    IF contested /\ claim.confidence # "corroborated"
    THEN [claim EXCEPT !.confidence = "contested"]
    ELSE claim

\* Rule 2: `if contested: claim["confidence"] = "contested"`
Rule2(claim, contested) ==
    IF contested THEN [claim EXCEPT !.confidence = "contested"] ELSE claim

VerifyInit ==
    /\ IngestIdle
    /\ FetchIdle
    /\ TopicsIdle
    /\ LaterIdle
    /\ analysis \in ClaimLists
    /\ raw_data \in RawDataInputs
    /\ verify_pc = "build"
    /\ topic_sources = [t \in TopicNames |-> <<>>]
    /\ idx = 1
    /\ initial_claims = analysis
    /\ oracle_log = <<>>

notVerifyVars == <<ingestVars, fetchVars, topicVars, laterVars>>

\* verify up to the loop over the claims: items_by_id and topic_sources
VerifyBuild ==
    /\ verify_pc = "build"
    /\ topic_sources' = TopicSources(raw_data, analysis)
    /\ verify_pc' = "claims"
    /\ UNCHANGED <<analysis, raw_data, idx, initial_claims, oracle_log>>
    /\ UNCHANGED notVerifyVars

\* one claim whose topic has no source text: detect_contestation returns
\* False before it calls the oracle
VerifyUnasked ==
    /\ verify_pc = "claims"
    /\ idx <= Len(analysis)
    /\ topic_sources[analysis[idx].topic_id] = <<>>
    /\ analysis' = [analysis EXCEPT ![idx] = Rule2(Rule1(@), FALSE)]
    /\ oracle_log' = Append(oracle_log, "not asked")
    /\ idx' = idx + 1
    /\ UNCHANGED <<verify_pc, raw_data, topic_sources, initial_claims>>
    /\ UNCHANGED notVerifyVars

\* one claim for which the oracle is called and answers
VerifyAnswered(answer) ==
    /\ verify_pc = "claims"
    /\ idx <= Len(analysis)
    /\ topic_sources[analysis[idx].topic_id] # <<>>
    /\ analysis' = [analysis EXCEPT ![idx] = Rule2(Rule1(@), IsYes(answer))]
    /\ oracle_log' = Append(oracle_log, answer)
    /\ idx' = idx + 1
    /\ UNCHANGED <<verify_pc, raw_data, topic_sources, initial_claims>>
    /\ UNCHANGED notVerifyVars

\* one claim for which client.chat.completions.create raises (or the reply
\* has no content): nothing catches it, in detect_contestation or in verify
VerifyOracleRaises ==
    /\ verify_pc = "claims"
    /\ idx <= Len(analysis)
    /\ topic_sources[analysis[idx].topic_id] # <<>>
    /\ analysis' = [analysis EXCEPT ![idx] = Rule1(@)]
    /\ oracle_log' = Append(oracle_log, "raised")
    /\ verify_pc' = "raised"
    /\ UNCHANGED <<raw_data, topic_sources, idx, initial_claims>>
    /\ UNCHANGED notVerifyVars

\* `return analysis`
VerifyReturn ==
    /\ verify_pc = "claims"
    /\ idx > Len(analysis)
    /\ verify_pc' = "done"
    /\ UNCHANGED <<analysis, raw_data, topic_sources, idx, initial_claims, oracle_log>>
    /\ UNCHANGED notVerifyVars

VerifyNext ==
    \/ VerifyBuild
    \/ VerifyUnasked
    \/ \E answer \in Answers : VerifyAnswered(answer)
    \/ VerifyOracleRaises
    \/ VerifyReturn

VerifySpec == VerifyInit /\ [][VerifyNext]_vars

\* ------------------------------------------------ properties of verify
\* the claims verify has finished with
Verified == 1..(idx - 1)

\* the number of distinct source keys a claim cites
DistinctSources(claim) == Cardinality({claim.source_ids[k] : k \in 1..Len(claim.source_ids)})

\* the oracle gave a contestation signal for claim i
Signalled(i) == oracle_log[i] \in Answers /\ StripUpper(oracle_log[i]) = "YES"

\* the result of the corroboration rule on its own, as verify computes it
Structural(claim) ==
    IF claim.confidence = "reported" /\ Len(claim.source_ids) >= 2
    THEN "corroborated" ELSE claim.confidence

\* C13 as claimed: without a contestation signal a reported claim ends
\* corroborated exactly if it cites two or more distinct source keys, and
\* stays reported otherwise.
C13_Claimed ==
    \A i \in Verified :
        (initial_claims[i].confidence = "reported" /\ ~Signalled(i)) =>
            analysis[i].confidence =
                IF DistinctSources(initial_claims[i]) >= 2 THEN "corroborated" ELSE "reported"

\* C14: a claim that starts inferred or speculative, or reported with one
\* source id, never ends corroborated, and keeps its initial confidence when
\* the oracle gives no contestation signal.
C14_NeverCorroborated ==
    \A i \in 1..Len(analysis) :
        (\/ initial_claims[i].confidence \in {"inferred", "speculative"}
         \/ (initial_claims[i].confidence = "reported"
               /\ Len(initial_claims[i].source_ids) = 1)) =>
            /\ analysis[i].confidence # "corroborated"
            /\ i \in Verified /\ ~Signalled(i)
                  => analysis[i].confidence = initial_claims[i].confidence

\* verify returned; an inferred claim with two sources, asked about and not
\* contested, is still inferred
C14_Witness ==
    /\ verify_pc = "done"
    /\ \E i \in Verified :
          /\ initial_claims[i].confidence = "inferred"
          /\ Len(initial_claims[i].source_ids) >= 2
          /\ oracle_log[i] = "NO"
          /\ analysis[i].confidence = "inferred"

\* C15: a claim for which the oracle answered yes ends contested, whatever
\* its initial confidence and source count and whether rule 1 fired.
C15_ContestedWins ==
    \A i \in Verified : Signalled(i) => analysis[i].confidence = "contested"

\* a reported claim with two sources, which rule 1 corroborates, is contested
C15_Witness ==
    /\ verify_pc = "done"
    /\ \E i \in Verified :
          /\ Structural(initial_claims[i]) = "corroborated"
          /\ Signalled(i)
          /\ analysis[i].confidence = "contested"

\* C16 as claimed: when the oracle call raises for a claim, verify goes on:
\* the claim keeps its structural result and verify reaches the other claims.
C16_Claimed ==
    \A i \in 1..Len(oracle_log) :
        oracle_log[i] = "raised" =>
            /\ verify_pc \in {"claims", "done"}
            /\ analysis[i].confidence = Structural(initial_claims[i])

\* C17: an answer that is not YES once stripped and upper-cased, the empty
\* and the explanatory answer included, leaves the claim at the structural
\* result; only such a YES makes it contested.
C17_StrictYes ==
    \A i \in Verified :
        oracle_log[i] \in Answers =>
            analysis[i].confidence =
                IF StripUpper(oracle_log[i]) = "YES" THEN "contested"
                ELSE Structural(initial_claims[i])

\* an explanatory answer that begins with "Yes" left a claim corroborated, and
\* an empty answer left one as it was
C17_Witness ==
    /\ verify_pc = "done"
    /\ \E i \in Verified, j \in Verified :
          /\ oracle_log[i] = "Yes, the second source disputes it."
          /\ analysis[i].confidence = "corroborated"
          /\ oracle_log[j] = ""
          /\ analysis[j].confidence = initial_claims[j].confidence

\* ================================================ core/normalize_topics.py
\* json.loads(content)["topic_mapping"]: old topic_id -> canonical topic_id,
\* for any of the ids, with identity entries, chains and swaps among them
Mappings == UNION { [keys -> TopicNames] : keys \in SUBSET Topics }

\* {c["topic_id"] for c in claims}
TopicIds(claims) == {claims[i].topic_id : i \in 1..Len(claims)}

\* the mutant of NothingToNormalize: only the empty list returns early
NoClaims(claims) == claims = <<>>

\* `if not claims` and `if len(topic_ids) == 1`
NothingToNormalize(claims) == claims = <<>> \/ Cardinality(TopicIds(claims)) = 1

\* lines 81-83 for one claim
Rewrite(claim, m) ==
    IF claim.topic_id \in DOMAIN m
    THEN [claim EXCEPT !.topic_id = m[claim.topic_id]]
    ELSE claim

\* a mutant of ApplyMapping: each claim is rewritten twice
ApplyTwice(claims, m) == [i \in 1..Len(claims) |-> Rewrite(Rewrite(claims[i], m), m)]

\* a mutant of ApplyMapping: the loop ends after the first rewrite
ApplyToFirst(claims, m) ==
    [i \in 1..Len(claims) |->
        IF \E j \in 1..(i - 1) : claims[j].topic_id \in DOMAIN m
        THEN claims[i] ELSE Rewrite(claims[i], m)]

\* a mutant of ApplyMapping: the loop leaves out the last claim
ApplyButLast(claims, m) ==
    [i \in 1..Len(claims) |-> IF i = Len(claims) THEN claims[i] ELSE Rewrite(claims[i], m)]

\* `for claim in claims`: the rewrite pass
ApplyMapping(claims, m) == [i \in 1..Len(claims) |-> Rewrite(claims[i], m)]

TopicsInit ==
    /\ IngestIdle
    /\ FetchIdle
    /\ VerifyIdle
    /\ LaterIdle
    /\ analysis \in ClaimLists
    /\ topics_pc = "start"
    /\ mapping = NoMapping
    /\ grouping_calls = 0
    /\ claims_before = analysis
    /\ grouping_reply = "none"

notTopicVars == <<ingestVars, fetchVars, verifyVars, laterVars>>

\* replies for which line 69 or the loop raises: text that is not JSON, JSON
\* without "topic_mapping", a "topic_mapping" that is a list naming an id of
\* the claims (mapping[old] is a TypeError); any of them ends the call
RaisingReplies == {"not json", "no topic_mapping", "list of the ids"}

\* replies with a "topic_mapping" that is not a mapping and that passes
\* line 69 and the loop: a list without an id of the claims (the empty list)
PassingReplies == {"empty list"}

\* no claims, or one topic id: `return analysis` before the oracle is called
NormalizeNothing ==
    /\ topics_pc = "start"
    /\ NothingToNormalize(analysis)
    /\ topics_pc' = "done"
    /\ UNCHANGED <<analysis, mapping, grouping_calls, claims_before, grouping_reply>>
    /\ UNCHANGED notTopicVars

\* the oracle returns the mapping m, which the loop applies to every claim
NormalizeMapped(m) ==
    /\ topics_pc = "start"
    /\ ~NothingToNormalize(analysis)
    /\ grouping_calls' = grouping_calls + 1
    /\ mapping' = m
    /\ analysis' = ApplyMapping(analysis, m)
    /\ topics_pc' = "done"
    /\ grouping_reply' = "mapping"
    /\ UNCHANGED claims_before
    /\ UNCHANGED notTopicVars

\* the oracle's reply is not JSON or has no "topic_mapping": ValueError (or
\* the call itself raises); normalize_topics does not return
NormalizeInvalid ==
    /\ topics_pc = "start"
    /\ ~NothingToNormalize(analysis)
    /\ grouping_calls' = grouping_calls + 1
    /\ topics_pc' = "failed"
    /\ grouping_reply' \in RaisingReplies
    /\ UNCHANGED <<analysis, mapping, claims_before>>
    /\ UNCHANGED notTopicVars

\* the reply is JSON whose "topic_mapping" is a list that names no id of the
\* claims: line 69 takes it, `old in mapping` is false for every claim, and
\* normalize_topics returns the claims as they were
NormalizeNotAMapping ==
    /\ topics_pc = "start"
    /\ ~NothingToNormalize(analysis)
    /\ grouping_calls' = grouping_calls + 1
    /\ topics_pc' = "done"
    /\ grouping_reply' \in PassingReplies
    /\ UNCHANGED <<analysis, mapping, claims_before>>
    /\ UNCHANGED notTopicVars

TopicsNext ==
    \/ NormalizeNothing
    \/ \E m \in Mappings : NormalizeMapped(m)
    \/ NormalizeInvalid
    \/ NormalizeNotAMapping

TopicsSpec == TopicsInit /\ [][TopicsNext]_vars

\* --------------------------------------- properties of normalize_topics
\* normalize_topics returned after it applied the oracle's mapping
MappingApplied == topics_pc = "done" /\ grouping_calls > 0

\* every value of m that is also a key of m is mapped to itself
Closed(m) == \A k \in DOMAIN m : m[k] \in DOMAIN m => m[m[k]] = m[k]

\* C18: when the claims carry no or one distinct topic id, the grouping
\* oracle is never called, normalize_topics returns, and every claim keeps
\* its topic id.
C18_NoCallForOneTopic ==
    Cardinality(TopicIds(claims_before)) <= 1 =>
        /\ grouping_calls = 0
        /\ analysis = claims_before
        /\ topics_pc \in {"start", "done"}

\* two claims of one topic went through without a call
C18_Witness ==
    /\ topics_pc = "done"
    /\ Len(claims_before) = 2
    /\ Cardinality(TopicIds(claims_before)) = 1
    /\ grouping_calls = 0
    /\ analysis = claims_before

\* C19 as claimed: once the mapping is applied, no claim's topic id is a key
\* of the mapping.
C19_Claimed ==
    MappingApplied => \A i \in 1..Len(analysis) : analysis[i].topic_id \notin DOMAIN mapping

\* C19: once the mapping is applied, every claim's topic id is the mapping's
\* value for the id it had (its own id when that was no key), so it is a key
\* of the mapping only if it is also one of the mapping's values.
C19_RewrittenOnce ==
    MappingApplied =>
        \A i \in 1..Len(analysis) :
            /\ analysis[i].topic_id =
                  IF claims_before[i].topic_id \in DOMAIN mapping
                  THEN mapping[claims_before[i].topic_id]
                  ELSE claims_before[i].topic_id
            /\ analysis[i].topic_id \in DOMAIN mapping
                  => \E k \in DOMAIN mapping : mapping[k] = analysis[i].topic_id

\* a chain t1 -> t2 -> t0 was applied: the claim that had t1 now has t2, a key
C19_Witness ==
    /\ MappingApplied
    /\ DOMAIN mapping = {"t1", "t2"}
    /\ mapping["t1"] = "t2"
    /\ mapping["t2"] = "t0"
    /\ \E i \in 1..Len(analysis) :
          claims_before[i].topic_id = "t1" /\ analysis[i].topic_id = "t2"

\* C20 as claimed: applying the mapping again to the rewritten claims changes
\* no topic id, whatever the mapping.
C20_Claimed ==
    MappingApplied => ApplyMapping(analysis, mapping) = analysis

\* C20: applying the mapping again to the rewritten claims changes no topic
\* id when every value of the mapping that is also a key is mapped to itself.
C20_IdempotentIfClosed ==
    (MappingApplied /\ Closed(mapping)) => ApplyMapping(analysis, mapping) = analysis

\* a closed mapping with an identity entry merged t2 into t1; a second pass
\* leaves the claims as they are
C20_Witness ==
    /\ MappingApplied
    /\ Closed(mapping)
    /\ DOMAIN mapping = {"t1", "t2"}
    /\ mapping["t1"] = "t1"
    /\ mapping["t2"] = "t1"
    /\ analysis # claims_before
    /\ ApplyMapping(analysis, mapping) = analysis

\* ================================================ briefing_pipeline.main
\* raw_data as the ingestion gives it: no item carries a topic_id
PipelineRawData ==
    { raw \in RawDataInputs : \A i \in 1..Len(raw) : raw[i].topic_id = NoField }

RunInit ==
    /\ IngestIdle
    /\ FetchIdle
    /\ VerifyIdle
    /\ TopicsIdle
    /\ analysis = <<>>
    /\ run_pc = "ingestion"
    /\ stages = <<"ingestion">>
    /\ AnalyzeIdle
    /\ CacheIdle
    /\ ConfigIdle

notRunVars == <<ingestVars, fetchVars, analyzeVars, cacheVars, configVars>>

\* a mutant of Abort: the except clause of main goes on to the delivery
AbortToDelivery(stage) == "delivery"

\* `except Exception as e: ... exit(1)` in main, whatever the stage
Abort(stage) == "exit1"

\* run_ingestion raises ValueError("No items fetched from any source")
RunIngestionFails ==
    /\ run_pc = "ingestion"
    /\ run_pc' = Abort(run_pc)
    /\ UNCHANGED <<stages, analysis, verifyVars, topicVars>>
    /\ UNCHANGED notRunVars

\* run_ingestion returns; run_analysis normalises and limits the items and
\* calls analyze with what is left, raw
RunIngested(raw) ==
    /\ run_pc = "ingestion"
    /\ raw_data' = raw
    /\ run_pc' = "analyze"
    /\ stages' = Append(stages, "analysis")
    /\ UNCHANGED <<analysis, verify_pc, topic_sources, idx, initial_claims, oracle_log,
                   topicVars>>
    /\ UNCHANGED notRunVars

\* analyze raises (an API error in a batch)
RunAnalyzeFails ==
    /\ run_pc = "analyze"
    /\ run_pc' = Abort(run_pc)
    /\ UNCHANGED <<stages, analysis, verifyVars, topicVars>>
    /\ UNCHANGED notRunVars

\* analyze returns the claims; normalize_topics is called with them
RunAnalyzed(claims) ==
    /\ run_pc = "analyze"
    /\ analysis' = claims
    /\ claims_before' = claims
    /\ topics_pc' = "start"
    /\ run_pc' = "topics"
    /\ UNCHANGED <<stages, verifyVars, mapping, grouping_calls, grouping_reply>>
    /\ UNCHANGED notRunVars

\* normalize_topics raises
RunTopicsFail ==
    /\ run_pc = "topics"
    /\ topics_pc = "failed"
    /\ run_pc' = Abort(run_pc)
    /\ UNCHANGED <<stages, analysis, verifyVars, topicVars>>
    /\ UNCHANGED notRunVars

\* normalize_topics returns; verify is called with its result
RunTopicsReturn ==
    /\ run_pc = "topics"
    /\ topics_pc = "done"
    /\ verify_pc' = "build"
    /\ initial_claims' = analysis
    /\ run_pc' = "verify"
    /\ UNCHANGED <<stages, analysis, raw_data, topic_sources, idx, oracle_log, topicVars>>
    /\ UNCHANGED notRunVars

\* verify raises
RunVerifyFails ==
    /\ run_pc = "verify"
    /\ verify_pc = "raised"
    /\ run_pc' = Abort(run_pc)
    /\ UNCHANGED <<stages, analysis, verifyVars, topicVars>>
    /\ UNCHANGED notRunVars

\* verify returns; review is called
RunVerifyReturn ==
    /\ run_pc = "verify"
    /\ verify_pc = "done"
    /\ run_pc' = "review"
    /\ UNCHANGED <<stages, analysis, verifyVars, topicVars>>
    /\ UNCHANGED notRunVars

\* review raises (the API, or ValueError for a reply that is not JSON)
RunReviewFails ==
    /\ run_pc = "review"
    /\ run_pc' = Abort(run_pc)
    /\ UNCHANGED <<stages, analysis, verifyVars, topicVars>>
    /\ UNCHANGED notRunVars

\* review and run_analysis return; run_delivery is called
RunReviewed ==
    /\ run_pc = "review"
    /\ run_pc' = "delivery"
    /\ stages' = Append(stages, "delivery")
    /\ UNCHANGED <<analysis, verifyVars, topicVars>>
    /\ UNCHANGED notRunVars

\* format_brief raises in run_delivery
RunDeliveryFails ==
    /\ run_pc = "delivery"
    /\ run_pc' = Abort(run_pc)
    /\ UNCHANGED <<stages, analysis, verifyVars, topicVars>>
    /\ UNCHANGED notRunVars

\* run_delivery returns (a failure of deliver_briefing is caught there)
RunDelivered ==
    /\ run_pc = "delivery"
    /\ run_pc' = "complete"
    /\ UNCHANGED <<stages, analysis, verifyVars, topicVars>>
    /\ UNCHANGED notRunVars

RunNext ==
    \/ RunIngestionFails
    \/ \E raw \in PipelineRawData : RunIngested(raw)
    \/ RunAnalyzeFails
    \/ \E claims \in ClaimLists : RunAnalyzed(claims)
    \/ NormalizeNothing
    \/ \E m \in Mappings : NormalizeMapped(m)
    \/ NormalizeInvalid
    \/ NormalizeNotAMapping
    \/ RunTopicsFail
    \/ RunTopicsReturn
    \/ VerifyBuild
    \/ VerifyUnasked
    \/ \E answer \in Answers : VerifyAnswered(answer)
    \/ VerifyOracleRaises
    \/ VerifyReturn
    \/ RunVerifyFails
    \/ RunVerifyReturn
    \/ RunReviewFails
    \/ RunReviewed
    \/ RunDeliveryFails
    \/ RunDelivered

RunSpec == RunInit /\ [][RunNext]_vars

\* ---------------------------------------------------- properties of main
InSeq(x, seq) == \E i \in 1..Len(seq) : seq[i] = x

\* verify has been called
VerifyStarted == verify_pc # "idle"

\* C21 as claimed: after a reply that is not a JSON object with a
\* topic_mapping from ids to ids, normalize_topics has failed, no claim's
\* topic id is rewritten, and verify is not called.
C21_Claimed ==
    grouping_reply \in RaisingReplies \cup PassingReplies =>
        /\ topics_pc = "failed"
        /\ analysis = claims_before
        /\ run_pc \in {"topics", "exit1"}
        /\ ~VerifyStarted

\* C22: when verify is called, normalize_topics has returned and every claim
\* that verify receives carries the mapping's value for the topic id it had
\* (its own when the mapping has no entry for it); the topic ids do not
\* change while verify runs.
C22_RewriteBeforeVerify ==
    VerifyStarted =>
        /\ topics_pc = "done"
        /\ Len(initial_claims) = Len(claims_before)
        /\ Len(analysis) = Len(claims_before)
        /\ \A i \in 1..Len(claims_before) :
              /\ initial_claims[i].topic_id =
                    IF claims_before[i].topic_id \in DOMAIN mapping
                    THEN mapping[claims_before[i].topic_id]
                    ELSE claims_before[i].topic_id
              /\ analysis[i].topic_id = initial_claims[i].topic_id
        /\ verify_pc # "build" => topic_sources = TopicSources(raw_data, initial_claims)

\* the oracle is asked about a claim of topic t1 that was extracted under t2
C22_Witness ==
    /\ verify_pc = "claims"
    /\ grouping_reply = "mapping"
    /\ Len(oracle_log) = 2
    /\ oracle_log[2] \in Answers
    /\ claims_before[2].topic_id = "t2"
    /\ analysis[2].topic_id = "t1"
    /\ claims_before[1].topic_id = "t1"

\* the run stopped at a stage before the claims were all verified
AbortedBeforeVerified ==
    /\ run_pc = "exit1"
    /\ ~(verify_pc = "done" /\ idx > Len(analysis))

\* C24: a run that aborts before verify has finished with every claim never
\* enters the delivery stage and ends in exit(1); the delivery stage is
\* entered only after verify has returned with every claim verified.
C24_NoDeliveryAfterAbort ==
    /\ [](InSeq("delivery", stages) =>
            /\ verify_pc = "done"
            /\ idx > Len(analysis)
            /\ Len(oracle_log) = Len(analysis)
            /\ topics_pc = "done")
    /\ [](topics_pc = "failed" \/ verify_pc = "raised" => run_pc \in {"topics", "verify", "exit1"})
    /\ [](AbortedBeforeVerified => ~InSeq("delivery", stages))
    /\ [][(topics_pc = "failed" \/ verify_pc = "raised") /\ run_pc # "exit1"
            => run_pc' = "exit1"]_vars
    /\ [][run_pc = "exit1" => run_pc' = "exit1"]_vars

\* verify raised at the second claim, after the first was verified: the run
\* has exited without a delivery
C24_Witness ==
    /\ run_pc = "exit1"
    /\ verify_pc = "raised"
    /\ idx = 2
    /\ Len(analysis) = 2
    /\ ~InSeq("delivery", stages)

\* ================================================ core/analyze_batched.py
\* len(raw_data): the sizes that give 0..MaxBatches batches, full or not
ItemCounts ==
    {0} \cup { n * BATCH_SIZE + d : n \in 0..(MaxBatches - 1), d \in {1, BATCH_SIZE} }

\* `num_batches = (total_items + BATCH_SIZE - 1) // BATCH_SIZE`
NumBatches(total) == (total + BATCH_SIZE - 1) \div BATCH_SIZE

\* the "claims" lists of a reply of the right shape
BatchClaims ==
    { <<>>,
      << Claim("reported", <<"s1">>, "t1") >>,
      << Claim("inferred", <<"s1", "s2">>, "t1"), Claim("speculative", <<"s9">>, "t1") >> }

\* what the extraction oracle replies for a batch: an object with "claims",
\* text that is not JSON, a JSON object without "claims", JSON that is not
\* an object (an array), an object whose "claims" is null
Reply(k, cs) == [kind |-> k, claims |-> cs]

BatchReplies ==
    { Reply("claims", cs) : cs \in BatchClaims }
    \cup { Reply(k, <<>>) : k \in {"not json", "no claims", "json array", "claims null"} }

\* a mutant of BatchResult: the claims of the batches before are dropped too
\* when a reply is not JSON
ResetOnBadJson(reply, claims) ==
    IF reply.kind = "claims" THEN claims \o reply.claims
    ELSE IF reply.kind = "not json" THEN <<>>
    ELSE claims

\* analyze_batch and line 105 for a reply that does not raise: all_claims
\* after `all_claims.extend(batch_result.get("claims", []))`
BatchResult(reply, claims) ==
    IF reply.kind = "claims" THEN claims \o reply.claims ELSE claims

\* the replies on which line 105 raises: a list has no .get, and
\* extend(None) is a TypeError
RaisesAtExtend(reply) == reply.kind \in {"json array", "claims null"}

AnalyzeInit ==
    /\ IngestIdle
    /\ FetchIdle
    /\ VerifyIdle
    /\ TopicsIdle
    /\ RunIdle
    /\ CacheIdle
    /\ ConfigIdle
    /\ analysis = <<>>
    /\ analyze_pc = "loop"
    /\ total_items \in ItemCounts
    /\ batch_i = 0
    /\ all_claims = <<>>
    /\ batch_log = <<>>

notAnalyzeVars == <<ingestVars, fetchVars, analysis, verifyVars, topicVars, runVars,
                    cacheVars, configVars>>

\* one iteration of `for i in range(num_batches)` that goes through
AnalyzeBatch(reply) ==
    /\ analyze_pc = "loop"
    /\ batch_i < NumBatches(total_items)
    /\ ~RaisesAtExtend(reply)
    /\ all_claims' = BatchResult(reply, all_claims)
    /\ batch_log' = Append(batch_log, reply)
    /\ batch_i' = batch_i + 1
    /\ UNCHANGED <<analyze_pc, total_items>>
    /\ UNCHANGED notAnalyzeVars

\* one iteration in which analyze_batch returns JSON of another shape and
\* line 105 raises; nothing catches it
AnalyzeBatchRaises(reply) ==
    /\ analyze_pc = "loop"
    /\ batch_i < NumBatches(total_items)
    /\ RaisesAtExtend(reply)
    /\ batch_log' = Append(batch_log, reply)
    /\ analyze_pc' = "raised"
    /\ UNCHANGED <<total_items, batch_i, all_claims>>
    /\ UNCHANGED notAnalyzeVars

\* one iteration in which client.chat.completions.create raises
AnalyzeApiError ==
    /\ analyze_pc = "loop"
    /\ batch_i < NumBatches(total_items)
    /\ batch_log' = Append(batch_log, Reply("api error", <<>>))
    /\ analyze_pc' = "raised"
    /\ UNCHANGED <<total_items, batch_i, all_claims>>
    /\ UNCHANGED notAnalyzeVars

\* `return {"claims": all_claims}`
AnalyzeReturn ==
    /\ analyze_pc = "loop"
    /\ batch_i >= NumBatches(total_items)
    /\ analyze_pc' = "returned"
    /\ UNCHANGED <<total_items, batch_i, all_claims, batch_log>>
    /\ UNCHANGED notAnalyzeVars

AnalyzeNext ==
    \/ \E reply \in BatchReplies : AnalyzeBatch(reply)
    \/ \E reply \in BatchReplies : AnalyzeBatchRaises(reply)
    \/ AnalyzeApiError
    \/ AnalyzeReturn

AnalyzeSpec == AnalyzeInit /\ [][AnalyzeNext]_vars

\* ---------------------------------------------------- properties of analyze
\* the claims of the well-formed replies among log, in batch order
RECURSIVE ClaimsOf(_)
ClaimsOf(log) ==
    IF log = <<>> THEN <<>>
    ELSE (IF log[1].kind = "claims" THEN log[1].claims ELSE <<>>) \o ClaimsOf(Tail(log))

\* replies that are no object with a list of claims
Malformed == {"not json", "no claims", "json array", "claims null"}

\* C23 as claimed: while the oracle has answered every batch, well-formed or
\* not, analyze has not raised and all_claims holds the claims of the
\* well-formed replies in batch order.
C23_Claimed ==
    (\A b \in 1..Len(batch_log) : batch_log[b].kind \in Malformed \cup {"claims"}) =>
        /\ analyze_pc # "raised"
        /\ all_claims = ClaimsOf(batch_log)

\* C23 for the replies the code provides for: a reply that is not JSON, or a
\* JSON object without "claims", adds nothing, and all_claims holds the
\* claims of the other batches in batch order.
C23_BadJsonSkipped ==
    (\A b \in 1..Len(batch_log) : batch_log[b].kind \in {"not json", "no claims", "claims"}) =>
        /\ analyze_pc # "raised"
        /\ all_claims = ClaimsOf(batch_log)
        /\ Len(batch_log) = batch_i

\* three batches, the second not JSON: the claims of the first and the third
C23_Witness ==
    /\ analyze_pc = "returned"
    /\ Len(batch_log) = 3
    /\ batch_log[1].kind = "claims" /\ batch_log[1].claims # <<>>
    /\ batch_log[2].kind = "not json"
    /\ batch_log[3].kind = "claims" /\ batch_log[3].claims # <<>>
    /\ all_claims = batch_log[1].claims \o batch_log[3].claims

\* ------------------------------------- properties of verify, continued
\* the claim cites an id that no item of raw_data has
CitesAbsent(claim) ==
    \E k \in 1..Len(claim.source_ids) : ItemsWithId(raw_data, claim.source_ids[k]) = <<>>

\* C25: verify keeps the claims, their order and their text, source_ids and
\* topic_id; when it returns, every claim, one that cites an absent source
\* key included, has been through rule 1 and through the contestation check.
C25_ClaimsKept ==
    /\ Len(analysis) = Len(initial_claims)
    /\ \A i \in 1..Len(analysis) :
          /\ analysis[i].text = initial_claims[i].text
          /\ analysis[i].source_ids = initial_claims[i].source_ids
          /\ analysis[i].topic_id = initial_claims[i].topic_id
    /\ verify_pc = "done" =>
          /\ Len(oracle_log) = Len(analysis)
          /\ \A i \in 1..Len(analysis) :
                analysis[i].confidence =
                    IF Signalled(i) THEN "contested" ELSE Structural(initial_claims[i])

\* a claim that cites only an absent key was asked about and contested, after
\* a corroborated claim that repeats a source id
C25_Witness ==
    /\ verify_pc = "done"
    /\ Len(analysis) = 2
    /\ initial_claims[1].source_ids = <<"s1", "s1">>
    /\ analysis[1].confidence = "corroborated"
    /\ analysis[2].source_ids = <<"s9">>
    /\ CitesAbsent(analysis[2])
    /\ Signalled(2)
    /\ analysis[2].confidence = "contested"

\* the contents of the items a claim cites
CitedContents(claim) ==
    { raw_data[k].content : k \in { j \in 1..Len(raw_data) : InList(raw_data[j].id, claim.source_ids) } }

\* the evidence verify hands to detect_contestation for claim i
Evidence(i) == topic_sources[initial_claims[i].topic_id]

\* claim i is the only claim of its topic and cites one source
AloneWithOneSource(i) ==
    /\ Len(initial_claims[i].source_ids) = 1
    /\ \A j \in 1..Len(initial_claims) :
          j # i => initial_claims[j].topic_id # initial_claims[i].topic_id

\* C27 as claimed: the evidence for a claim holds no content of the items the
\* claim cites; a claim alone under its topic with one source is checked
\* against an empty evidence set, so the oracle is not asked and the claim is
\* not contested.
C27_Claimed ==
    \A i \in Verified :
        /\ \A k \in 1..Len(Evidence(i)) : Evidence(i)[k] \notin CitedContents(initial_claims[i])
        /\ AloneWithOneSource(i) =>
              /\ Evidence(i) = <<>>
              /\ oracle_log[i] = "not asked"
              /\ analysis[i].confidence # "contested"

\* ------------------------------------- properties of ingest_rss, continued
\* the folds of a key for which fetch_article was called
FetchAttempts(url) ==
    LET c == Contribs(url)
    IN  { k \in 1..Len(c) : c[k].fetched # NoFetch }

\* C28 as claimed: at every point of the merge a record marked full_article
\* holds the body its fetch returned, and a record marked rss or rss_fallback
\* holds a body one of its feed entries supplied.
C28_Claimed ==
    \A i \in 1..Len(RssItems) :
        LET item == RssItems[i]
            c == Contribs(item.url)
        IN  /\ item.content_source = "full_article" =>
                  /\ c[1].fetched.success
                  /\ item.content = c[1].fetched.content
            /\ item.content_source \in {"rss", "rss_fallback"} =>
                  \E k \in 1..Len(c) : item.content = ContribContent(c[k])

\* C29 as claimed: in the RSS output a record whose fetch_full_article is true
\* has a fetch_status of success or failed, and fetch_article was called at
\* most once for its key.
C29_Claimed ==
    pc = "done" =>
        \A i \in 1..Len(RssItems) :
            /\ RssItems[i].fetch_full_article =>
                  /\ RssItems[i].fetch_status \in {"success", "failed"}
                  /\ FetchAttempts(RssItems[i].url) # {}
            /\ Cardinality(FetchAttempts(RssItems[i].url)) <= 1

\* ================================================================ config.py
\* The cached configuration: load_config, save_config, reload_config and
\* get_lookback_days, with the Save button of ui/control.py.  A configuration
\* is the record of the three keys the lookback period depends on.
MaxConfigCalls == 3

\* FREQUENCY_TO_DAYS.get(frequency, 7)
FREQUENCY_TO_DAYS(frequency) ==
    CASE frequency = "daily" -> 1
      [] frequency = "weekly" -> 7
      [] frequency = "biweekly" -> 14
      [] frequency = "monthly" -> 30
      [] OTHER -> 7

Config(days, frequency, calculated) ==
    [lookback_days |-> days, frequency |-> frequency,
     calculated_lookback_days |-> calculated]

\* the values of lookback_days and of frequency a YAML file or a caller gives
LookbackValues == {NoDays, 0, 3, 14}
Frequencies == {NoField, "daily", "monthly"}

\* the values st.number_input(min_value=1, max_value=30) gives
UiLookbackValues == {3, 14}

\* the configurations a caller of save_config builds, or a file holds
FreshConfigs == { Config(d, f, NoDays) : d \in LookbackValues, f \in Frequencies }

\* CONFIG_FILE: <<>> when it does not exist
ConfigFiles == { <<config>> : config \in FreshConfigs } \cup {<<>>}

\* the dict literal load_config uses when CONFIG_FILE does not exist
DefaultConfig == Config(7, "weekly", NoDays)

\* `if config.get("lookback_days")`
DaysGiven(days) == days # NoDays /\ days # 0

\* load_config: the assignment of config["_calculated_lookback_days"]
Calculate(config) ==
    [config EXCEPT !.calculated_lookback_days =
        IF DaysGiven(config.lookback_days) THEN config.lookback_days
        ELSE FREQUENCY_TO_DAYS(PyGet(config.frequency, "weekly"))]

\* load_config(), given _cached_config and the file
load_config(cache, file) ==
    IF cache # <<>> THEN cache[1]
    ELSE Calculate(IF file # <<>> THEN file[1] ELSE DefaultConfig)

\* lookback_days of the configuration load_config() reads from the disk;
\* `known` when it reads nothing
LoadedDays(cache, file, known) ==
    IF cache # <<>> THEN known
    ELSE IF file # <<>> THEN file[1].lookback_days ELSE DefaultConfig.lookback_days

\* config.get("_calculated_lookback_days", 7)
CalculatedOr(config, default) ==
    IF config.calculated_lookback_days = NoDays THEN default
    ELSE config.calculated_lookback_days

ConfigInit ==
    /\ IngestIdle
    /\ FetchIdle
    /\ VerifyIdle
    /\ TopicsIdle
    /\ RunIdle
    /\ AnalyzeIdle
    /\ CacheIdle
    /\ analysis = <<>>
    /\ cached_config = <<>>
    /\ config_file \in ConfigFiles
    /\ config_call = "start"
    /\ lookback_return = NoDays
    /\ latest_days = NoDays
    /\ config_calls = 0

notConfigVars == <<ingestVars, fetchVars, analysis, verifyVars, topicVars, runVars,
                   analyzeVars, cacheVars>>

\* load_config()
LoadConfig ==
    /\ config_calls < MaxConfigCalls
    /\ cached_config' = <<load_config(cached_config, config_file)>>
    /\ latest_days' = LoadedDays(cached_config, config_file, latest_days)
    /\ config_call' = "load_config"
    /\ config_calls' = config_calls + 1
    /\ UNCHANGED <<config_file, lookback_return>>
    /\ UNCHANGED notConfigVars

\* save_config(config) with a dict the caller built
SaveConfig(config) ==
    /\ config_calls < MaxConfigCalls
    /\ config_file' = <<config>>
    /\ cached_config' = <<config>>
    /\ latest_days' = config.lookback_days
    /\ config_call' = "save_config"
    /\ config_calls' = config_calls + 1
    /\ UNCHANGED lookback_return
    /\ UNCHANGED notConfigVars

\* ui/control.py, "Save Configuration": the dict load_config() returned is
\* changed in place and saved
UiSave(days) ==
    LET config == [load_config(cached_config, config_file) EXCEPT !.lookback_days = days]
    IN  /\ config_calls < MaxConfigCalls
        /\ config_file' = <<config>>
        /\ cached_config' = <<config>>
        /\ latest_days' = days
        /\ config_call' = "save_config"
        /\ config_calls' = config_calls + 1
        /\ UNCHANGED lookback_return
        /\ UNCHANGED notConfigVars

\* reload_config()
ReloadConfig ==
    /\ config_calls < MaxConfigCalls
    /\ cached_config' = <<load_config(<<>>, config_file)>>
    /\ latest_days' = LoadedDays(<<>>, config_file, latest_days)
    /\ config_call' = "reload_config"
    /\ config_calls' = config_calls + 1
    /\ UNCHANGED <<config_file, lookback_return>>
    /\ UNCHANGED notConfigVars

\* get_lookback_days()
GetLookbackDays ==
    LET config == load_config(cached_config, config_file)
    IN  /\ config_calls < MaxConfigCalls
        /\ cached_config' = <<config>>
        /\ latest_days' = LoadedDays(cached_config, config_file, latest_days)
        /\ lookback_return' = CalculatedOr(config, 7)
        /\ config_call' = "get_lookback_days"
        /\ config_calls' = config_calls + 1
        /\ UNCHANGED config_file
        /\ UNCHANGED notConfigVars

ConfigNext ==
    \/ LoadConfig
    \/ \E config \in FreshConfigs : SaveConfig(config)
    \/ \E days \in UiLookbackValues : UiSave(days)
    \/ ReloadConfig
    \/ GetLookbackDays

ConfigSpec == ConfigInit /\ [][ConfigNext]_vars

\* C30 as claimed: get_lookback_days() returns the lookback_days of the
\* configuration last saved or loaded, whenever that value is given; so it
\* returns the saved value right after a save_config, without a reload.
C30_Claimed ==
    (config_call = "get_lookback_days" /\ DaysGiven(latest_days))
        => lookback_return = latest_days

\* ============================================= gmail.py: the publisher cache
\* extract_publisher_name with the cache file it reads and writes.  A From
\* header is the record of its text, of what extract_email_from_header finds
\* in it and of what try_regex_extraction makes of it (no subject, no List-Id).
MaxCacheCalls == 3

Header(text, email, guess) == [text |-> text, email |-> email, regex_guess |-> guess]

\* "noreply@.com": the local part is generic and the domain's first label is
\* empty, so the regex guess is the empty string
Headers ==
    { Header("Acme <news@acme.com>", "news@acme.com", "Acme"),
      Header("Acme News <news@acme.com>", "news@acme.com", "Acme News"),
      Header("noreply@.com", "noreply@.com", ""),
      Header("Acme Team", None, "Acme Team") }

Addresses == { h.email : h \in { g \in Headers : g.email # None } }

\* what the chat completion does: it raises, or replies with a text
LlmReplies == {"<raises>", "", "<101 characters>", "Acme Inc", " \"Acme Corp\"\n"}

\* content.strip().strip('"').strip("'").strip()
Cleaned(reply) == IF reply = " \"Acme Corp\"\n" THEN "Acme Corp" ELSE reply

\* verify_publisher_with_llm
verify_publisher_with_llm(regex_guess, reply) ==
    IF reply = "<raises>" THEN regex_guess
    ELSE IF Cleaned(reply) = "" \/ Cleaned(reply) = "<101 characters>" THEN regex_guess
    ELSE Cleaned(reply)

\* the cache of a missing or unreadable file: {}
EmptyCache == [a \in Addresses |-> NoField]

\* load_publisher_cache(); readable is FALSE when reading the file raises
load_publisher_cache(file, readable) == IF readable THEN file ELSE EmptyCache

\* cache.get(email_address)
CacheGet(cache, email) == IF cache[email] = NoField THEN None ELSE cache[email]

\* `if cached:`
Hit(cached) == cached # None /\ cached # ""

\* a mutant of cache_publisher: an address already in the cache keeps its name
CachePublisherOnce(cache, email, name) ==
    IF cache[email] = NoField THEN [cache EXCEPT ![email] = name] ELSE cache

\* cache_publisher: cache[email_address] = publisher_name
cache_publisher(cache, email, name) == [cache EXCEPT ![email] = name]

\* save_publisher_cache(cache); writable is FALSE when writing raises
save_publisher_cache(file, cache, writable) == IF writable THEN cache ELSE file

Call(op, email, force, asked, readable, expected, was_kept) ==
    [op |-> op, email |-> email, force_reverify |-> force, asked |-> asked,
     readable |-> readable, expected |-> expected, was_kept |-> was_kept]

CacheInit ==
    /\ IngestIdle
    /\ FetchIdle
    /\ VerifyIdle
    /\ TopicsIdle
    /\ RunIdle
    /\ AnalyzeIdle
    /\ ConfigIdle
    /\ analysis = <<>>
    /\ publisher_cache = EmptyCache
    /\ llm_calls = 0
    /\ publisher_return = None
    /\ cache_call = Call("start", None, FALSE, FALSE, TRUE, NoField, FALSE)
    /\ computed = [a \in Addresses |-> NoField]
    /\ kept = [a \in Addresses |-> FALSE]
    /\ cache_calls = 0

notCacheVars == <<ingestVars, fetchVars, analysis, verifyVars, topicVars, runVars,
                  analyzeVars, configVars>>

\* extract_publisher_name: the header holds no address
ExtractNoEmail(h, force) ==
    /\ cache_calls < MaxCacheCalls
    /\ h.email = None
    /\ publisher_return' = h.regex_guess
    /\ cache_call' = Call("extract", None, force, FALSE, TRUE, NoField, FALSE)
    /\ cache_calls' = cache_calls + 1
    /\ UNCHANGED <<publisher_cache, llm_calls, computed, kept>>
    /\ UNCHANGED notCacheVars

\* extract_publisher_name: `if cached: return cached`
ExtractCached(h, readable) ==
    LET cached == CacheGet(load_publisher_cache(publisher_cache, readable), h.email)
    IN  /\ cache_calls < MaxCacheCalls
        /\ h.email # None
        /\ Hit(cached)
        /\ publisher_return' = cached
        /\ cache_call' = Call("extract", h.email, FALSE, FALSE, readable,
                              computed[h.email], kept[h.email])
        /\ cache_calls' = cache_calls + 1
        /\ UNCHANGED <<publisher_cache, llm_calls, computed, kept>>
        /\ UNCHANGED notCacheVars

\* extract_publisher_name: regex extraction, LLM verification, cache_publisher
ExtractVerified(h, force, reply, readable, readable2, writable) ==
    LET verified_name == verify_publisher_with_llm(h.regex_guess, reply)
        cache == load_publisher_cache(publisher_cache, readable2)
    IN  /\ cache_calls < MaxCacheCalls
        /\ h.email # None
        /\ force \/ ~Hit(CacheGet(load_publisher_cache(publisher_cache, readable), h.email))
        /\ llm_calls' = llm_calls + 1
        /\ publisher_cache' =
              save_publisher_cache(publisher_cache,
                                   cache_publisher(cache, h.email, verified_name), writable)
        /\ publisher_return' = verified_name
        /\ cache_call' = Call("extract", h.email, force, TRUE, readable,
                              computed[h.email], kept[h.email])
        /\ computed' = [computed EXCEPT ![h.email] = verified_name]
        /\ kept' = [a \in Addresses |->
                      IF a = h.email THEN writable
                      ELSE kept[a] /\ (readable2 \/ ~writable)]
        /\ cache_calls' = cache_calls + 1
        /\ UNCHANGED notCacheVars

\* lookup_publisher_cache(email_address)
LookupPublisherCache(email, readable) ==
    /\ cache_calls < MaxCacheCalls
    /\ publisher_return' = CacheGet(load_publisher_cache(publisher_cache, readable), email)
    /\ cache_call' = Call("lookup", email, FALSE, FALSE, readable,
                          computed[email], kept[email])
    /\ cache_calls' = cache_calls + 1
    /\ UNCHANGED <<publisher_cache, llm_calls, computed, kept>>
    /\ UNCHANGED notCacheVars

CacheNext ==
    \/ \E h \in Headers, force \in BOOLEAN : ExtractNoEmail(h, force)
    \/ \E h \in Headers, readable \in BOOLEAN : ExtractCached(h, readable)
    \/ \E h \in Headers, force \in BOOLEAN, reply \in LlmReplies,
          readable \in BOOLEAN, readable2 \in BOOLEAN, writable \in BOOLEAN :
            ExtractVerified(h, force, reply, readable, readable2, writable)
    \/ \E email \in Addresses, readable \in BOOLEAN : LookupPublisherCache(email, readable)

CacheSpec == CacheInit /\ [][CacheNext]_vars

====
